---- MODULE Spec2Model ----
(***************************************************************************)
(* A model of the alligotor configuration merger (src/alligotor.go).       *)
(*                                                                         *)
(* Collector.Get builds the field catalog of a settings struct and then    *)
(* runs the file, environment and flag readers over it.  Every Go string   *)
(* is a sequence of characters, so that splitting, joining, case mapping   *)
(* and number parsing are computed as the code computes them.              *)
(*                                                                         *)
(* A character of ASCII is the one-character string; a character outside   *)
(* ASCII is the string of its code point, "U+00E9" for e with acute, so    *)
(* that the module is ASCII text and reads the same under every locale.    *)
(* The alphabet is ASCII (the printable characters but the backquote, and  *)
(* tab, line feed, vertical tab, form feed and carriage return), the       *)
(* Latin-1 supplement U+0080 to U+00FF, the letters outside it that case   *)
(* mapping takes Latin-1 letters to (U+0178, U+039C and its lower case     *)
(* U+03BC), and the white space of unicode.IsSpace.                        *)
(***************************************************************************)
EXTENDS Integers, Sequences, FiniteSets, TLC

VARIABLES
    typ,        \* the settings struct type (names, tags, kinds), fixed per run
    collector,  \* the Collector: Files, Env and Flags configuration
    environ,    \* os.Environ(): a sequence of "KEY=value" strings
    args,       \* os.Args[1:]
    dirFiles,   \* what the directory scan of Files.Locations yields, in order
    pc,         \* position of Collector.Get
    fields,     \* the field catalog built by getFieldsConfigsFromValue
    heap,       \* backing arrays of the Base slices of the catalog
    vals,       \* the target struct's memory: one value per catalog slot
    before,     \* the target's memory when the running stage started
    err,        \* the error Get returned ("nil" when none)
    panicked,   \* TRUE when Get ended by an unrecovered panic
    order       \* the order in which readPFlags ranged over its map

vars == <<typ, collector, environ, args, dirFiles, pc, fields, heap, vals,
          before, err, panicked, order>>

-----------------------------------------------------------------------------
(* Strings *)

\* the characters of one byte in UTF-8 (without the backquote, which no
\* string of this module can hold)
AsciiChars ==
    {"\t", "\n", "", "\f", "\r",
     " ","!","\"","#","$","%","&","'","(",")","*","+",
     ",","-",".","/","0","1","2","3","4","5","6","7",
     "8","9",":",";","<","=",">","?","@","A","B","C",
     "D","E","F","G","H","I","J","K","L","M","N","O",
     "P","Q","R","S","T","U","V","W","X","Y","Z","[",
     "\\","]","^","_","a","b","c","d","e","f","g",
     "h","i","j","k","l","m","n","o","p","q","r","s",
     "t","u","v","w","x","y","z","{","|","}","~"}

\* the lower-case letters that have an upper case, and at the same position
\* the upper case of each: a to z, U+00E0 to U+00FE without the division
\* sign U+00F7, U+00FF (upper case U+0178) and U+03BC
LowerChars == <<"a","b","c","d","e","f","g","h","i","j","k","l","m",
                "n","o","p","q","r","s","t","u","v","w","x","y","z",
                "U+00E0","U+00E1","U+00E2","U+00E3","U+00E4","U+00E5",
                "U+00E6","U+00E7","U+00E8","U+00E9","U+00EA","U+00EB",
                "U+00EC","U+00ED","U+00EE","U+00EF","U+00F0","U+00F1",
                "U+00F2","U+00F3","U+00F4","U+00F5","U+00F6","U+00F8",
                "U+00F9","U+00FA","U+00FB","U+00FC","U+00FD","U+00FE",
                "U+00FF","U+03BC">>
UpperChars == <<"A","B","C","D","E","F","G","H","I","J","K","L","M",
                "N","O","P","Q","R","S","T","U","V","W","X","Y","Z",
                "U+00C0","U+00C1","U+00C2","U+00C3","U+00C4","U+00C5",
                "U+00C6","U+00C7","U+00C8","U+00C9","U+00CA","U+00CB",
                "U+00CC","U+00CD","U+00CE","U+00CF","U+00D0","U+00D1",
                "U+00D2","U+00D3","U+00D4","U+00D5","U+00D6","U+00D8",
                "U+00D9","U+00DA","U+00DB","U+00DC","U+00DD","U+00DE",
                "U+0178","U+039C">>
DigitChars == <<"0","1","2","3","4","5","6","7","8","9">>

\* position of c in seq, 0 when absent
IndexOfChar(c, seq) ==
    IF \E i \in 1..Len(seq) : seq[i] = c
    THEN CHOOSE i \in 1..Len(seq) : seq[i] = c
    ELSE 0

\* the upper case of each letter of LowerChars, the lower case of each
\* letter of UpperChars
UpperOf ==
    [c \in {LowerChars[i] : i \in DOMAIN LowerChars} |->
        UpperChars[CHOOSE i \in DOMAIN LowerChars : LowerChars[i] = c]]
LowerOf ==
    [c \in {UpperChars[i] : i \in DOMAIN UpperChars} |->
        LowerChars[CHOOSE i \in DOMAIN UpperChars : UpperChars[i] = c]]

\* unicode.ToUpper; the micro sign U+00B5 has the upper case of U+03BC
ToUpperChar(c) ==
    IF c = "U+00B5" THEN "U+039C"
    ELSE IF c \in DOMAIN UpperOf THEN UpperOf[c] ELSE c

\* unicode.ToLower
ToLowerChar(c) == IF c \in DOMAIN LowerOf THEN LowerOf[c] ELSE c

\* strings.ToUpper
ToUpper(s) == [i \in 1..Len(s) |-> ToUpperChar(s[i])]

\* strings.ToLower
ToLower(s) == [i \in 1..Len(s) |-> ToLowerChar(s[i])]

HasPrefixAt(s, i, p) ==
    /\ i + Len(p) - 1 <= Len(s)
    /\ \A k \in 1..Len(p) : s[i + k - 1] = p[k]

RECURSIVE IndexFrom(_, _, _)
IndexFrom(s, p, i) ==
    IF i + Len(p) - 1 > Len(s) THEN 0
    ELSE IF HasPrefixAt(s, i, p) THEN i
    ELSE IndexFrom(s, p, i + 1)

\* strings.Index, 1-based; 0 when p does not occur in s
Index(s, p) == IndexFrom(s, p, 1)

\* strings.Split
RECURSIVE Split(_, _)
Split(s, sep) ==
    IF sep = <<>> THEN [i \in 1..Len(s) |-> <<s[i]>>]
    ELSE LET i == Index(s, sep) IN
         IF i = 0 THEN <<s>>
         ELSE <<SubSeq(s, 1, i - 1)>> \o Split(SubSeq(s, i + Len(sep), Len(s)), sep)

\* strings.SplitN(s, sep, 2) for a non-empty sep
SplitN2(s, sep) ==
    LET i == Index(s, sep) IN
    IF i = 0 THEN <<s>>
    ELSE <<SubSeq(s, 1, i - 1), SubSeq(s, i + Len(sep), Len(s))>>

\* strings.TrimSpace removes the characters of unicode.IsSpace: tab, line
\* feed, vertical tab, form feed, carriage return, space, U+0085, U+00A0,
\* U+1680, U+2000 to U+200A, U+2028, U+2029, U+202F, U+205F and U+3000
WhiteChars ==
    {" ", "\t", "\n", "", "\f", "\r",
     "U+0085","U+00A0","U+1680","U+2000","U+2001","U+2002",
     "U+2003","U+2004","U+2005","U+2006","U+2007","U+2008",
     "U+2009","U+200A","U+2028","U+2029","U+202F","U+205F",
     "U+3000"}

RECURSIVE TrimLeft(_)
TrimLeft(s) == IF Len(s) > 0 /\ s[1] \in WhiteChars THEN TrimLeft(Tail(s)) ELSE s

RECURSIVE TrimRight(_)
TrimRight(s) ==
    IF Len(s) > 0 /\ s[Len(s)] \in WhiteChars THEN TrimRight(SubSeq(s, 1, Len(s) - 1)) ELSE s

TrimSpace(s) == TrimRight(TrimLeft(s))

\* strings.Join
RECURSIVE Join(_, _)
Join(parts, sep) ==
    IF Len(parts) = 0 THEN <<>>
    ELSE IF Len(parts) = 1 THEN parts[1]
    ELSE parts[1] \o sep \o Join(Tail(parts), sep)

-----------------------------------------------------------------------------
(* Values of the target's fields.  Every value carries an integer and a    *)
(* string part so that any two values can be compared.                     *)

\* a Go map[string]string: the empty one, and m[key] = val
EmptyMap == [k \in {} |-> <<>>]

MapPut(m, key, val) == [k \in DOMAIN m \cup {key} |-> IF k = key THEN val ELSE m[k]]

IntVal(n) == [k |-> "int", n |-> n, s |-> <<>>, m |-> EmptyMap]
StrVal(s) == [k |-> "str", n |-> 0, s |-> s, m |-> EmptyMap]
StructVal == [k |-> "struct", n |-> 0, s |-> <<>>, m |-> EmptyMap]
MapVal(m) == [k |-> "map", n |-> 0, s |-> <<>>, m |-> m]

IsIntKind(kind) == kind \in {"int", "int8", "int16", "int32", "int64"}

\* reflect.Zero(target.Type())
Zero(kind) ==
    IF IsIntKind(kind) THEN IntVal(0)
    ELSE IF kind = "string" THEN StrVal(<<>>)
    ELSE IF kind = "map" THEN MapVal(EmptyMap)
    ELSE StructVal

-----------------------------------------------------------------------------
(* Annotation parser *)

NoFlag == [DefaultName |-> <<>>, ShortName |-> <<>>]
NoConfig == [DefaultFileField |-> <<>>, DefaultEnvName |-> <<>>, Flag |-> NoFlag]

envKey == <<"e","n","v">>
flagKey == <<"f","l","a","g">>
fileKey == <<"f","i","l","e">>
flagConfigSeparator == <<" ">>

\* the loop of readFlagConfig over the tokens flags[i..]
RECURSIVE readFlagTokens(_, _, _)

\* readFlagTokens without the checks that a name was already taken: a later
\* token of the same category replaces the earlier one
readFlagTokensLastWins(flags, i, flagConf) ==
    IF i > Len(flags) THEN [flag |-> flagConf, err |-> "nil"]
    ELSE IF Len(flags[i]) = 1
    THEN readFlagTokens(flags, i + 1, [flagConf EXCEPT !.ShortName = flags[i]])
    ELSE readFlagTokens(flags, i + 1, [flagConf EXCEPT !.DefaultName = flags[i]])

readFlagTokens(flags, i, flagConf) ==
    IF i > Len(flags) THEN [flag |-> flagConf, err |-> "nil"]
    ELSE LET f == flags[i] IN
         IF Len(f) = 1
         THEN IF flagConf.ShortName # <<>>
              THEN [flag |-> NoFlag, err |-> "ErrMalformedFlagConfig"]
              ELSE readFlagTokens(flags, i + 1, [flagConf EXCEPT !.ShortName = f])
         ELSE IF flagConf.DefaultName # <<>>
              THEN [flag |-> NoFlag, err |-> "ErrMalformedFlagConfig"]
              ELSE readFlagTokens(flags, i + 1, [flagConf EXCEPT !.DefaultName = f])

readFlagConfig(flagStr) ==
    LET flags == Split(flagStr, flagConfigSeparator) IN
    IF Len(flags) > 2 THEN [flag |-> NoFlag, err |-> "ErrMalformedFlagConfig"]
    ELSE readFlagTokens(flags, 1, NoFlag)

\* the loop of readParameterConfig over the pairs params[i..];
\* the result is [cfg, err, panic]
RECURSIVE readParams(_, _, _)
readParams(params, i, fieldConfig) ==
    IF i > Len(params) THEN [cfg |-> fieldConfig, err |-> "nil", panic |-> FALSE]
    ELSE LET keyVal == SplitN2(params[i], <<"=">>) IN
         IF Len(keyVal) # 2
         THEN [cfg |-> NoConfig, err |-> "invalid config struct tag format", panic |-> TRUE]
         ELSE IF keyVal[1] = <<>> \/ keyVal[2] = <<>>
         THEN [cfg |-> NoConfig, err |-> "config struct tag needs to have the format", panic |-> TRUE]
         ELSE LET key == keyVal[1]
                  val == keyVal[2]
              IN
              IF key = envKey
              THEN readParams(params, i + 1, [fieldConfig EXCEPT !.DefaultEnvName = val])
              ELSE IF key = fileKey
              THEN readParams(params, i + 1, [fieldConfig EXCEPT !.DefaultFileField = val])
              ELSE IF key = flagKey
              THEN LET r == readFlagConfig(val) IN
                   IF r.err # "nil"
                   THEN [cfg |-> NoConfig, err |-> r.err, panic |-> FALSE]
                   ELSE readParams(params, i + 1, [fieldConfig EXCEPT !.Flag = r.flag])
              ELSE [cfg |-> NoConfig, err |-> "only env, file, and flag are allowed as config tag keys",
                    panic |-> TRUE]

readParameterConfig(configStr) ==
    IF configStr = <<>> THEN [cfg |-> NoConfig, err |-> "nil", panic |-> FALSE]
    ELSE readParams(Split(configStr, <<",">>), 1, NoConfig)

-----------------------------------------------------------------------------
(* Go slices of strings: [arr, len, cap] over the backing arrays of `heap`. *)
(* heap[a] is backing array a, a sequence of cap strings.                   *)

NilSlice == [arr |-> 0, len |-> 0, cap |-> 0]

\* the elements a slice shows
Elems(h, sl) == IF sl.len = 0 THEN <<>> ELSE SubSeq(h[sl.arr], 1, sl.len)

\* capacity the runtime gives a grown slice of strings (growslice below 256
\* elements: double, or the needed length when that is more)
GrowCap(oldCap, newLen) == IF newLen > oldCap + oldCap THEN newLen ELSE oldCap + oldCap

\* append(sl, x): [slice, heap]; writes in place when capacity is left
AppendSlice(h, sl, x) ==
    IF sl.len < sl.cap
    THEN [slice |-> [sl EXCEPT !.len = sl.len + 1],
          heap  |-> [h EXCEPT ![sl.arr][sl.len + 1] = x]]
    ELSE LET newCap == GrowCap(sl.cap, sl.len + 1)
             arr == [i \in 1..newCap |->
                        IF i <= sl.len THEN h[sl.arr][i]
                        ELSE IF i = sl.len + 1 THEN x ELSE <<>>]
         IN [slice |-> [arr |-> Len(h) + 1, len |-> sl.len + 1, cap |-> newCap],
             heap  |-> Append(h, arr)]

\* FullName with the appended name never written into the shared array
FullNameWithoutWrite(h, f, separator) ==
    [name |-> Join(Append(Elems(h, f.Base), f.Name), separator), heap |-> h]

\* field.FullName: strings.Join(append(f.Base, f.Name), separator).
\* The appended slice is dropped after the join, a reallocated array with it,
\* but a write in place stays in the shared backing array.
FullName(h, f, separator) ==
    LET r == AppendSlice(h, f.Base, f.Name) IN
    [name |-> Join(Elems(r.heap, r.slice), separator),
     heap |-> IF f.Base.len < f.Base.cap THEN r.heap ELSE h]

-----------------------------------------------------------------------------
(* Field catalog.  A struct type is a sequence of field declarations       *)
(* [Name, Tag, Kind, Fields, Preset]; Fields is the nested struct's type.  *)
(* Catalog entries are numbered in the order they are recorded, and entry  *)
(* i's Value is slot i of the target's memory; a struct's value is made of *)
(* the slots of the entries recorded for its nested fields.                *)

\* a struct field is exported, and so settable through reflection, when its
\* name starts with an upper-case letter
IsExported(name) == Len(name) > 0 /\ name[1] \in DOMAIN LowerOf

RECURSIVE NumFields(_)
NumFields(decls) ==
    IF Len(decls) = 0 THEN 0
    ELSE 1 + NumFields(decls[1].Fields) + NumFields(Tail(decls))

\* getFieldsConfigsFromValue from declaration i on: getFieldsLoop reads the
\* tag, recordField records the entry and recurses into a nested struct,
\* recordSubFields appends what the recursion returned.  slot is the number
\* of entries recorded before, in the whole catalog.  The result is
\* [fields, heap, err, panic].
RECURSIVE getFieldsLoop(_, _, _, _, _, _, _)
RECURSIVE recordField(_, _, _, _, _, _, _, _)
RECURSIVE recordSubFields(_, _, _, _, _, _, _)

getFieldsLoop(decls, i, base, h, acc, slot, canSet) ==
    IF i > Len(decls) THEN [fields |-> acc, heap |-> h, err |-> "nil", panic |-> FALSE]
    ELSE recordField(decls, i, base, h, acc, slot, canSet,
                     readParameterConfig(decls[i].Tag))

recordField(decls, i, base, h, acc, slot, canSet, fieldConfig) ==
    IF fieldConfig.err # "nil"
    THEN [fields |-> <<>>, heap |-> h, err |-> fieldConfig.err, panic |-> fieldConfig.panic]
    ELSE LET d == decls[i]
             f == [Base |-> base, Name |-> d.Name, Kind |-> d.Kind,
                   Config |-> fieldConfig.cfg,
                   Value |-> slot + 1,
                   CanSet |-> canSet /\ IsExported(d.Name),
                   Last |-> slot + 1 + NumFields(d.Fields)]
             newBase == AppendSlice(h, base, d.Name)
         IN
         IF d.Kind = "struct"
         THEN recordSubFields(decls, i, base, Append(acc, f), slot, canSet,
                              getFieldsLoop(d.Fields, 1, newBase.slice, newBase.heap,
                                            <<>>, slot + 1, f.CanSet))
         ELSE getFieldsLoop(decls, i + 1, base, h, Append(acc, f), slot + 1, canSet)

recordSubFields(decls, i, base, acc, slot, canSet, subFields) ==
    IF subFields.err # "nil"
    THEN [fields |-> <<>>, heap |-> subFields.heap, err |-> subFields.err,
          panic |-> subFields.panic]
    ELSE getFieldsLoop(decls, i + 1, base, subFields.heap, acc \o subFields.fields,
                       slot + 1 + Len(subFields.fields), canSet)

getFieldsConfigsFromValue(decls) ==
    getFieldsLoop(decls, 1, NilSlice, <<>>, <<>>, 0, TRUE)

\* the target's memory as the caller preset it, slot by slot in catalog order
RECURSIVE PresetVals(_)
PresetVals(decls) ==
    IF Len(decls) = 0 THEN <<>>
    ELSE <<decls[1].Preset>> \o PresetVals(decls[1].Fields) \o PresetVals(Tail(decls))


-----------------------------------------------------------------------------
(* Value coercer *)

\* the digits ds[i..] read in base 10 onto acc; -1 when one is not a digit
RECURSIVE ParseDigits(_, _, _)
ParseDigits(ds, i, acc) ==
    IF i > Len(ds) THEN acc
    ELSE LET d == IndexOfChar(ds[i], DigitChars) IN
         IF d = 0 THEN -1
         ELSE ParseDigits(ds, i + 1, acc * 10 + (d - 1))

\* a digit string without its leading zeros
RECURSIVE StripZeros(_)
StripZeros(ds) == IF Len(ds) > 0 /\ ds[1] = "0" THEN StripZeros(Tail(ds)) ELSE ds

\* of two digit strings without leading zeros, a denotes the greater number
DecGreater(a, b) ==
    \/ Len(a) > Len(b)
    \/ /\ Len(a) = Len(b)
       /\ \E i \in 1..Len(a) :
              /\ IndexOfChar(a[i], DigitChars) > IndexOfChar(b[i], DigitChars)
              /\ \A j \in 1..(i - 1) : a[j] = b[j]

\* 2^64 - 1, 2^63 - 1 and 2^63 in decimal digits
MaxUint64Digits == <<"1","8","4","4","6","7","4","4","0","7","3","7","0","9","5","5","1","6","1","5">>
MaxInt64Digits == <<"9","2","2","3","3","7","2","0","3","6","8","5","4","7","7","5","8","0","7">>
MinInt64Digits == <<"9","2","2","3","3","7","2","0","3","6","8","5","4","7","7","5","8","0","8">>

\* the digits that ds starts with
DigitPrefix(ds) ==
    IF \E i \in 1..Len(ds) : IndexOfChar(ds[i], DigitChars) = 0
    THEN SubSeq(ds, 1, (CHOOSE i \in 1..Len(ds) :
                           /\ IndexOfChar(ds[i], DigitChars) = 0
                           /\ \A j \in 1..(i - 1) : IndexOfChar(ds[j], DigitChars) # 0) - 1)
    ELSE ds

\* strconv.ParseInt(value, 10, 0): an optional sign and decimal digits.  The
\* bit size 0 is that of int, 64 bits, whatever the target's width: the
\* digits are read as an unsigned 64-bit number, which stops with a range
\* error where they exceed it, with a syntax error at a character that is no
\* digit, and the number is then held against the signed 64-bit range.  The
\* numbers inside that range that the runs below supply are below 2^31.
ParseInt(value) ==
    LET signed == Len(value) > 0 /\ value[1] \in {"+", "-"}
        neg == signed /\ value[1] = "-"
        ds == IF signed THEN Tail(value) ELSE value
    IN
    IF Len(ds) = 0 THEN [err |-> "strconv.ParseInt: invalid syntax", n |-> 0]
    ELSE IF DecGreater(StripZeros(DigitPrefix(ds)), MaxUint64Digits)
    THEN [err |-> "strconv.ParseInt: value out of range", n |-> 0]
    ELSE IF DigitPrefix(ds) # ds
    THEN [err |-> "strconv.ParseInt: invalid syntax", n |-> 0]
    ELSE IF DecGreater(StripZeros(ds), IF neg THEN MinInt64Digits ELSE MaxInt64Digits)
    THEN [err |-> "strconv.ParseInt: value out of range", n |-> 0]
    ELSE [err |-> "nil", n |-> IF neg THEN 0 - ParseDigits(ds, 1, 0)
                               ELSE ParseDigits(ds, 1, 0)]

\* x truncated to w bits, two's complement
WrapInt(x, w) == ((x + 2^(w - 1)) % 2^w) - 2^(w - 1)

\* reflect.Value.SetInt on a target of the given kind: the int64 is converted
\* to the target's type, which keeps the low bits; a number below 2^31 is
\* the same in 32 and in 64 bits
SetInt(kind, x) ==
    IF kind = "int8" THEN IntVal(WrapInt(x, 8))
    ELSE IF kind = "int16" THEN IntVal(WrapInt(x, 16))
    ELSE IntVal(x)

\* stringSlice.UnmarshalText: the text split on "," and each element trimmed
stringSliceUnmarshalText(text) ==
    [i \in 1..Len(Split(text, <<",">>)) |-> TrimSpace(Split(text, <<",">>)[i])]

\* the loop of stringMap.UnmarshalText from keyVals[i] on: [m, panic]; an
\* element without "=" makes split[1] index out of range
RECURSIVE stringMapLoop(_, _, _)
stringMapLoop(keyVals, i, m) ==
    IF i > Len(keyVals) THEN [m |-> m, panic |-> FALSE]
    ELSE LET split == SplitN2(keyVals[i], <<"=">>) IN
         IF Len(split) < 2 THEN [m |-> m, panic |-> TRUE]
         ELSE stringMapLoop(keyVals, i + 1,
                            MapPut(m, TrimSpace(split[1]), TrimSpace(split[2])))

\* stringMap.UnmarshalText into the empty map
stringMapUnmarshalText(text) == stringMapLoop(stringSliceUnmarshalText(text), 1, EmptyMap)

\* setFromString on a target of the given kind.  The result is
\* [err, set, val]: whether the target was assigned and the value assigned.
\* A struct target takes the default branch of the type switch: it is no
\* TextUnmarshaler, target.Set of a string panics and the deferred recover
\* turns the panic into ErrUnsupportedType.
setFromString(kind, canSet, value) ==
    IF ~canSet THEN [err |-> "ErrCantSet", set |-> FALSE, val |-> Zero(kind)]
    ELSE IF value = <<>> THEN [err |-> "nil", set |-> TRUE, val |-> Zero(kind)]
    ELSE IF IsIntKind(kind)
    THEN LET r == ParseInt(value) IN
         IF r.err # "nil" THEN [err |-> r.err, set |-> FALSE, val |-> Zero(kind)]
         ELSE [err |-> "nil", set |-> TRUE, val |-> SetInt(kind, r.n)]
    ELSE IF kind = "string"
    THEN [err |-> "nil", set |-> TRUE, val |-> StrVal(value)]
    ELSE IF kind = "map"
    THEN LET r == stringMapUnmarshalText(value) IN
         IF r.panic THEN [err |-> "ErrUnsupportedType", set |-> FALSE, val |-> Zero(kind)]
         ELSE [err |-> "nil", set |-> TRUE, val |-> MapVal(r.m)]
    ELSE [err |-> "ErrUnsupportedType", set |-> FALSE, val |-> Zero(kind)]

\* target.Set(v) on catalog entry f: slot f.Value takes v; a struct value
\* overwrites the whole struct, the slots of its nested fields included.
\* The only struct value the readers ever assign is the zero struct.
SetValue(vs, flds, f, v) ==
    [j \in 1..Len(vs) |->
        IF j = f.Value THEN v
        ELSE IF f.Kind = "struct" /\ j > f.Value /\ j <= f.Last THEN Zero(flds[j].Kind)
        ELSE vs[j]]

\* setFromString(f.Value, texts[i]), then texts[i+1], ... stopping at the
\* first error: the inner loops of readEnv and readPFlags over the values
\* found for one field.  The result is [vals, err].
RECURSIVE setEach(_, _, _, _, _)
RECURSIVE setEachResult(_, _, _, _, _, _)

setEach(vs, flds, f, texts, i) ==
    IF i > Len(texts) THEN [vals |-> vs, err |-> "nil"]
    ELSE setEachResult(vs, flds, f, texts, i, setFromString(f.Kind, f.CanSet, texts[i]))

setEachResult(vs, flds, f, texts, i, r) ==
    IF r.err # "nil" THEN [vals |-> vs, err |-> r.err]
    ELSE setEach(SetValue(vs, flds, f, r.val), flds, f, texts, i + 1)

-----------------------------------------------------------------------------
(* Environment reader *)

\* getEnvAsMap over os.Environ(): keys are kept as supplied.  The result is
\* [m, panic]; an entry without "=" makes split[1] index out of range.
RECURSIVE getEnvAsMapLoop(_, _, _)
getEnvAsMapLoop(envKeyVal, i, envMap) ==
    IF i > Len(envKeyVal) THEN [m |-> envMap, panic |-> FALSE]
    ELSE LET split == SplitN2(envKeyVal[i], <<"=">>) IN
         IF Len(split) < 2 THEN [m |-> envMap, panic |-> TRUE]
         ELSE getEnvAsMapLoop(envKeyVal, i + 1, MapPut(envMap, split[1], split[2]))

getEnvAsMap(envKeyVal) == getEnvAsMapLoop(envKeyVal, 1, EmptyMap)

\* the override alone when the field has one, the computed name otherwise
EnvNamesOverrideReplaces(f, config, fullName) ==
    IF f.Config.DefaultEnvName # <<>> THEN <<f.Config.DefaultEnvName>>
    ELSE IF config.Prefix # <<>> THEN <<config.Prefix \o config.Separator \o fullName>>
    ELSE <<fullName>>

\* the names readEnv looks field f up by, in order, given its full name
EnvNames(f, config, fullName) ==
    <<f.Config.DefaultEnvName,
      IF config.Prefix # <<>> THEN config.Prefix \o config.Separator \o fullName
      ELSE fullName>>

\* the values of envVars under the upper-cased names, in the order of names
RECURSIVE EnvHits(_, _, _)

\* the lookup with the names as they are spelled, not upper-cased
EnvHitsAsSpelled(envVars, names, i) ==
    IF i > Len(names) THEN <<>>
    ELSE (IF names[i] \in DOMAIN envVars THEN <<envVars[names[i]]>> ELSE <<>>)
         \o EnvHits(envVars, names, i + 1)

EnvHits(envVars, names, i) ==
    IF i > Len(names) THEN <<>>
    ELSE (IF ToUpper(names[i]) \in DOMAIN envVars THEN <<envVars[ToUpper(names[i])]>> ELSE <<>>)
         \o EnvHits(envVars, names, i + 1)

\* the loop of readEnv from catalog entry i on: readEnvLoop computes the
\* full name, readEnvField looks the names up and assigns, readEnvNext
\* returns the error or goes on.  The result is [vals, heap, err, panic];
\* readEnv itself never panics.
RECURSIVE readEnvLoop(_, _, _, _, _, _)
RECURSIVE readEnvField(_, _, _, _, _, _)
RECURSIVE readEnvNext(_, _, _, _, _, _)

readEnvLoop(flds, config, envVars, i, vs, h) ==
    IF i > Len(flds) THEN [vals |-> vs, heap |-> h, err |-> "nil", panic |-> FALSE]
    ELSE readEnvField(flds, config, envVars, i, vs, FullName(h, flds[i], config.Separator))

readEnvField(flds, config, envVars, i, vs, fn) ==
    readEnvNext(flds, config, envVars, i, fn.heap,
                setEach(vs, flds, flds[i],
                        EnvHits(envVars, EnvNames(flds[i], config, fn.name), 1), 1))

\* readEnvNext going on to the next field after a failed assignment
readEnvNextGoesOn(flds, config, envVars, i, h, r) ==
    readEnvLoop(flds, config, envVars, i + 1, r.vals, h)

readEnvNext(flds, config, envVars, i, h, r) ==
    IF r.err # "nil" THEN [vals |-> r.vals, heap |-> h, err |-> r.err, panic |-> FALSE]
    ELSE readEnvLoop(flds, config, envVars, i + 1, r.vals, h)

readEnv(flds, config, envVars, vs, h) == readEnvLoop(flds, config, envVars, 1, vs, h)

-----------------------------------------------------------------------------
(* Case-insensitive nested map: the decoded content of one file.  A map is *)
(* a sequence of entries [key, val]; a value is a scalar or another map.   *)

FInt(n) == [t |-> "int", n |-> n, s |-> <<>>, m |-> <<>>]
FStr(s) == [t |-> "str", n |-> 0, s |-> s, m |-> <<>>]
FMap(m) == [t |-> "map", n |-> 0, s |-> <<>>, m |-> m]

NotFound == [ok |-> FALSE, val |-> FInt(0)]

\* descend from segment i of the path on; keys match ignoring case
RECURSIVE ciGet(_, _, _)
ciGet(m, parts, i) ==
    IF i > Len(parts) THEN NotFound
    ELSE LET hits == {j \in 1..Len(m) : ToLower(m[j].key) = ToLower(parts[i])} IN
         IF hits = {} THEN NotFound
         ELSE LET v == m[CHOOSE j \in hits : \A j2 \in hits : j <= j2].val IN
              IF i = Len(parts) THEN [ok |-> TRUE, val |-> v]
              ELSE IF v.t = "map" THEN ciGet(v.m, parts, i + 1)
              ELSE NotFound

\* ciMap.Get: split the path on the separator and descend level by level
CiMapGet(m, separator, path) == ciGet(m, Split(path, separator), 1)

-----------------------------------------------------------------------------
(* File reader *)

\* mapstructure.Decode of a nested map into a struct-typed target: reported
\* as a mismatch, which readFileMap tolerates for struct targets
DecodeIntoStruct(valueForField) == [err |-> "mapstructure: type mismatch", val |-> StructVal]

\* mapstructure.Decode(valueForField, &v) with v the zero value of the
\* field's type: [err, val].  Input is not weakly typed: a number decodes
\* into an integer target and a string into a string target only.
Decode(kind, valueForField) ==
    IF kind = "struct" THEN DecodeIntoStruct(valueForField)
    ELSE IF IsIntKind(kind) /\ valueForField.t = "int"
    THEN [err |-> "nil", val |-> SetInt(kind, valueForField.n)]
    ELSE IF kind = "string" /\ valueForField.t = "str"
    THEN [err |-> "nil", val |-> StrVal(valueForField.s)]
    ELSE [err |-> "mapstructure: type mismatch", val |-> Zero(kind)]

\* the full path before the override
FileNamesPathFirst(f, fullName) == <<fullName, f.Config.DefaultFileField>>

\* the names readFileMap looks field f up by, in order
FileNames(f, fullName) == <<f.Config.DefaultFileField, fullName>>

\* the inner loop of readFileMap over fieldNames[i..] of one field:
\* readFileNames looks the name up, readFileValue decodes a value found,
\* readFileDecoded assigns it or falls back.  The result is [vals, err, panic].
RECURSIVE readFileNames(_, _, _, _, _, _, _)
RECURSIVE readFileValue(_, _, _, _, _, _, _, _)
RECURSIVE readFileDecoded(_, _, _, _, _, _, _, _, _)
RECURSIVE readFileString(_, _, _, _, _, _, _, _)

readFileNames(vs, flds, f, separator, m, fieldNames, i) ==
    IF i > Len(fieldNames) THEN [vals |-> vs, err |-> "nil", panic |-> FALSE]
    ELSE readFileValue(vs, flds, f, separator, m, fieldNames, i,
                       CiMapGet(m, separator, fieldNames[i]))

readFileValue(vs, flds, f, separator, m, fieldNames, i, g) ==
    IF ~g.ok THEN readFileNames(vs, flds, f, separator, m, fieldNames, i + 1)
    ELSE readFileDecoded(vs, flds, f, separator, m, fieldNames, i, g.val,
                         Decode(f.Kind, g.val))

readFileDecoded(vs, flds, f, separator, m, fieldNames, i, valueForField, d) ==
    IF d.err # "nil"
    THEN IF valueForField.t = "str"
         THEN readFileString(vs, flds, f, separator, m, fieldNames, i,
                             setFromString(f.Kind, f.CanSet, valueForField.s))
         ELSE IF f.Kind = "struct"
         THEN readFileNames(vs, flds, f, separator, m, fieldNames, i + 1)
         ELSE [vals |-> vs, err |-> d.err, panic |-> FALSE]
    ELSE IF ~f.CanSet
    THEN [vals |-> vs, err |-> "reflect: Set using unexported field", panic |-> TRUE]
    ELSE readFileNames(SetValue(vs, flds, f, d.val), flds, f,
                       separator, m, fieldNames, i + 1)

readFileString(vs, flds, f, separator, m, fieldNames, i, r) ==
    IF r.err # "nil" THEN [vals |-> vs, err |-> r.err, panic |-> FALSE]
    ELSE readFileNames(SetValue(vs, flds, f, r.val), flds, f,
                       separator, m, fieldNames, i + 1)

\* the loop of readFileMap from catalog entry i on: [vals, heap, err, panic]
RECURSIVE readFileMapLoop(_, _, _, _, _, _)
RECURSIVE readFileMapField(_, _, _, _, _, _)
RECURSIVE readFileMapNext(_, _, _, _, _, _)

readFileMapLoop(flds, separator, m, i, vs, h) ==
    IF i > Len(flds) THEN [vals |-> vs, heap |-> h, err |-> "nil", panic |-> FALSE]
    ELSE readFileMapField(flds, separator, m, i, vs, FullName(h, flds[i], separator))

readFileMapField(flds, separator, m, i, vs, fn) ==
    readFileMapNext(flds, separator, m, i, fn.heap,
                    readFileNames(vs, flds, flds[i], separator, m,
                                  FileNames(flds[i], fn.name), 1))

readFileMapNext(flds, separator, m, i, h, r) ==
    IF r.err # "nil" THEN [vals |-> r.vals, heap |-> h, err |-> r.err, panic |-> r.panic]
    ELSE readFileMapLoop(flds, separator, m, i + 1, r.vals, h)

readFileMap(flds, separator, m, vs, h) == readFileMapLoop(flds, separator, m, 1, vs, h)

\* position of the last occurrence of character c in s, 0 when absent
LastIndexOfChar(s, c) ==
    IF \E i \in 1..Len(s) : s[i] = c
    THEN CHOOSE i \in 1..Len(s) : s[i] = c /\ \A j \in (i + 1)..Len(s) : s[j] # c
    ELSE 0

\* strings.TrimSuffix(name, path.Ext(name)) of a directory entry's name
TrimExt(name) ==
    LET dot == LastIndexOfChar(name, ".") IN
    IF dot = 0 THEN name ELSE SubSeq(name, 1, dot - 1)

\* unmarshal: the bytes decode as YAML or JSON into a map, or as neither
unmarshal(file) ==
    IF file.decodable THEN [err |-> "nil", m |-> file.m]
    ELSE [err |-> "ErrFileTypeNotSupported", m |-> <<>>]

\* readFilesNext returning after the first file applied
readFilesNextFirstOnly(flds, config, dirs, d, k, r) == r

\* readFiles over the directory listings dirs[d..], entry k of dirs[d] on:
\* readFilesLoop scans, readFilesDecoded takes the unmarshalled file,
\* readFilesNext the result of readFileMap: [vals, heap, err, panic]
RECURSIVE readFilesLoop(_, _, _, _, _, _, _, _)
RECURSIVE readFilesDecoded(_, _, _, _, _, _, _, _)
RECURSIVE readFilesNext(_, _, _, _, _, _)

readFilesLoop(flds, config, dirs, d, k, fileFound, vs, h) ==
    IF d > Len(dirs)
    THEN [vals |-> vs, heap |-> h,
          err |-> IF fileFound THEN "nil" ELSE "ErrNoFileFound", panic |-> FALSE]
    ELSE IF ~dirs[d].ok \/ k > Len(dirs[d].files)
    THEN readFilesLoop(flds, config, dirs, d + 1, 1, fileFound, vs, h)
    ELSE IF TrimExt(dirs[d].files[k].name) # config.BaseName
    THEN readFilesLoop(flds, config, dirs, d, k + 1, fileFound, vs, h)
    ELSE IF ~dirs[d].files[k].readable
    THEN [vals |-> vs, heap |-> h, err |-> "read error", panic |-> FALSE]
    ELSE readFilesDecoded(flds, config, dirs, d, k, vs, h, unmarshal(dirs[d].files[k]))

readFilesDecoded(flds, config, dirs, d, k, vs, h, u) ==
    IF u.err # "nil" THEN [vals |-> vs, heap |-> h, err |-> u.err, panic |-> FALSE]
    ELSE readFilesNext(flds, config, dirs, d, k,
                       readFileMap(flds, config.Separator, u.m, vs, h))

readFilesNext(flds, config, dirs, d, k, r) ==
    IF r.err # "nil" THEN r
    ELSE readFilesLoop(flds, config, dirs, d, k + 1, TRUE, r.vals, r.heap)

\* dirs[d] is what ioutil.ReadDir(config.Locations[d]) returns
readFiles(flds, config, dirs, vs, h) ==
    readFilesLoop(flds, config, dirs, 1, 1, FALSE, vs, h)

-----------------------------------------------------------------------------
(* The pflag flag set readPFlags builds: the string flags in registration  *)
(* order, each [name, short, value, changed].                              *)

LookupLong(fs, name) ==
    IF \E j \in 1..Len(fs) : fs[j].name = name
    THEN CHOOSE j \in 1..Len(fs) : fs[j].name = name
    ELSE 0

LookupShort(fs, c) ==
    IF \E j \in 1..Len(fs) : fs[j].short = <<c>>
    THEN CHOOSE j \in 1..Len(fs) : fs[j].short = <<c>>
    ELSE 0

\* flagSet.StringP(name, shorthand, "", usage): [fs, panic].  AddFlag panics
\* when the name is already defined, when the shorthand is longer than one
\* byte, and when the shorthand is already used.
StringP(fs, name, shorthand) ==
    IF LookupLong(fs, name) # 0 THEN [fs |-> fs, panic |-> TRUE]
    ELSE IF shorthand # <<>> /\ (Len(shorthand) > 1 \/ shorthand[1] \notin AsciiChars
                                 \/ LookupShort(fs, shorthand[1]) # 0)
    THEN [fs |-> Append(fs, [name |-> name, short |-> <<>>, value |-> <<>>,
                             changed |-> FALSE]),
          panic |-> TRUE]
    ELSE [fs |-> Append(fs, [name |-> name, short |-> shorthand, value |-> <<>>,
                             changed |-> FALSE]),
          panic |-> FALSE]

\* FlagSet.Set: the flag takes the value and counts as changed
FlagSetSet(fs, j, value) == [fs EXCEPT ![j].value = value, ![j].changed = TRUE]

stripUnknownFlagValue(a) ==
    IF Len(a) = 0 THEN a
    ELSE IF Len(a[1]) > 0 /\ a[1][1] = "-" THEN a
    ELSE IF Len(a) > 1 THEN Tail(a)
    ELSE <<>>

helpName == <<"h","e","l","p">>

\* parseLongArg of "--name[=value]" with the remaining arguments a, unknown
\* flags being whitelisted: [fs, args, err]
parseLongArg(fs, s, a) ==
    LET name0 == SubSeq(s, 3, Len(s)) IN
    IF Len(name0) = 0 \/ name0[1] = "-" \/ name0[1] = "="
    THEN [fs |-> fs, args |-> a, err |-> "pflag: bad flag syntax"]
    ELSE LET split == SplitN2(name0, <<"=">>)
             j == LookupLong(fs, split[1])
         IN
         IF j = 0
         THEN IF split[1] = helpName
              THEN [fs |-> fs, args |-> a, err |-> "pflag: help requested"]
              ELSE IF Len(split) >= 2 THEN [fs |-> fs, args |-> a, err |-> "nil"]
              ELSE [fs |-> fs, args |-> stripUnknownFlagValue(a), err |-> "nil"]
         ELSE IF Len(split) = 2
         THEN [fs |-> FlagSetSet(fs, j, split[2]), args |-> a, err |-> "nil"]
         ELSE IF Len(a) > 0
         THEN [fs |-> FlagSetSet(fs, j, a[1]), args |-> Tail(a), err |-> "nil"]
         ELSE [fs |-> fs, args |-> a, err |-> "pflag: flag needs an argument"]

\* parseSingleShortArg: [fs, shorts, args, err]
parseSingleShortArg(fs, shorthands, a) ==
    IF HasPrefixAt(shorthands, 1, <<"t","e","s","t",".">>)
    THEN [fs |-> fs, shorts |-> <<>>, args |-> a, err |-> "nil"]
    ELSE LET outShorts == Tail(shorthands)
             c == shorthands[1]
             j == LookupShort(fs, c)
             withEq == Len(shorthands) > 2 /\ shorthands[2] = "="
         IN
         IF j = 0
         THEN IF c = "h"
              THEN [fs |-> fs, shorts |-> outShorts, args |-> a,
                    err |-> "pflag: help requested"]
              ELSE IF withEq
              THEN [fs |-> fs, shorts |-> <<>>, args |-> a, err |-> "nil"]
              ELSE [fs |-> fs, shorts |-> outShorts, args |-> stripUnknownFlagValue(a),
                    err |-> "nil"]
         ELSE IF withEq
         THEN [fs |-> FlagSetSet(fs, j, SubSeq(shorthands, 3, Len(shorthands))),
               shorts |-> <<>>, args |-> a, err |-> "nil"]
         ELSE IF Len(shorthands) > 1
         THEN [fs |-> FlagSetSet(fs, j, Tail(shorthands)),
               shorts |-> <<>>, args |-> a, err |-> "nil"]
         ELSE IF Len(a) > 0
         THEN [fs |-> FlagSetSet(fs, j, a[1]), shorts |-> outShorts, args |-> Tail(a),
               err |-> "nil"]
         ELSE [fs |-> fs, shorts |-> outShorts, args |-> a,
               err |-> "pflag: flag needs an argument"]

\* parseShortArg's loop over the shorthands of one "-abc" argument: every
\* parseSingleShortArg is handed the arguments a as they were after "-abc",
\* and out is what the last call left of them
RECURSIVE parseShortsFrom(_, _, _, _)
parseShortsFrom(fs, shorthands, a, out) ==
    IF Len(shorthands) = 0 THEN [fs |-> fs, args |-> out, err |-> "nil"]
    ELSE LET r == parseSingleShortArg(fs, shorthands, a) IN
         IF r.err # "nil" THEN [fs |-> r.fs, args |-> r.args, err |-> r.err]
         ELSE parseShortsFrom(r.fs, r.shorts, a, r.args)

\* parseShortArg of "-abc" without its dash, with the remaining arguments a
parseShorts(fs, shorthands, a) == parseShortsFrom(fs, shorthands, a, a)

\* FlagSet.Parse with ContinueOnError: [fs, err]
RECURSIVE Parse(_, _)
Parse(fs, a) ==
    IF Len(a) = 0 THEN [fs |-> fs, err |-> "nil"]
    ELSE LET s == a[1]
             rest == Tail(a)
         IN
         IF Len(s) = 0 \/ s[1] # "-" \/ Len(s) = 1 THEN Parse(fs, rest)
         ELSE IF s[2] = "-" /\ Len(s) = 2 THEN [fs |-> fs, err |-> "nil"]
         ELSE LET r == IF s[2] = "-" THEN parseLongArg(fs, s, rest)
                       ELSE parseShorts(fs, Tail(s), rest)
              IN
              IF r.err # "nil" THEN [fs |-> r.fs, err |-> r.err]
              ELSE Parse(r.fs, r.args)

-----------------------------------------------------------------------------
(* Flag reader *)

\* the registration loop of readPFlags from catalog entry i on.  infos[i] is
\* fieldToFlagInfo of entry i: the flag-set indexes of its default and its
\* specific flag; cache is fieldCache.  registerFlags computes the full name,
\* registerDefault registers the default flag unless cached, registerSpecific
\* the specific one.  The result is [fs, infos, heap, panic].
RECURSIVE registerFlags(_, _, _, _, _, _, _)
RECURSIVE registerDefault(_, _, _, _, _, _, _)
RECURSIVE registerSpecific(_, _, _, _, _, _, _, _)
RECURSIVE registerNext(_, _, _, _, _, _, _, _)

registerFlags(flds, config, i, fs, cache, infos, h) ==
    IF i > Len(flds) THEN [fs |-> fs, infos |-> infos, heap |-> h, panic |-> FALSE]
    ELSE registerDefault(flds, config, i, fs, cache, infos,
                         FullName(h, flds[i], config.Separator))

registerDefault(flds, config, i, fs, cache, infos, fn) ==
    LET defaultName == flds[i].Config.Flag.DefaultName IN
    IF defaultName \in DOMAIN cache
    THEN registerSpecific(flds, config, i, cache, infos, fn, cache[defaultName],
                          [fs |-> fs, panic |-> FALSE])
    ELSE registerSpecific(flds, config, i, MapPut(cache, defaultName, Len(fs) + 1),
                          infos, fn, Len(fs) + 1, StringP(fs, defaultName, <<>>))

registerSpecific(flds, config, i, cache, infos, fn, defaultFlag, r) ==
    IF r.panic THEN [fs |-> r.fs, infos |-> infos, heap |-> fn.heap, panic |-> TRUE]
    ELSE registerNext(flds, config, i, cache, infos, fn.heap, defaultFlag,
                      StringP(r.fs, ToLower(fn.name), flds[i].Config.Flag.ShortName))

registerNext(flds, config, i, cache, infos, h, defaultFlag, r) ==
    IF r.panic THEN [fs |-> r.fs, infos |-> infos, heap |-> h, panic |-> TRUE]
    ELSE registerFlags(flds, config, i + 1, r.fs, cache,
                       Append(infos, <<defaultFlag, Len(r.fs)>>), h)

\* the values of the changed flags among flagInfoSlice, in its order
RECURSIVE ChangedValues(_, _, _)
RECURSIVE ChangedValuesIgnoringChanged(_, _, _)

\* the values of all flags of flagInfoSlice, whether changed or not: a flag
\* that was not supplied gives its default, the empty string
ChangedValuesIgnoringChanged(fs, flagInfoSlice, i) ==
    IF i > Len(flagInfoSlice) THEN <<>>
    ELSE <<fs[flagInfoSlice[i]].value>>
         \o ChangedValuesIgnoringChanged(fs, flagInfoSlice, i + 1)

ChangedValues(fs, flagInfoSlice, i) ==
    IF i > Len(flagInfoSlice) THEN <<>>
    ELSE (IF fs[flagInfoSlice[i]].changed THEN <<fs[flagInfoSlice[i]].value>> ELSE <<>>)
         \o ChangedValues(fs, flagInfoSlice, i + 1)

\* the second loop of readPFlags, ranging over the map fieldToFlagInfo in the
\* order ord (a permutation of the catalog's indexes): [vals, err]
RECURSIVE applyFlags(_, _, _, _, _, _)
RECURSIVE applyFlagsNext(_, _, _, _, _, _)

applyFlags(flds, fs, infos, ord, i, vs) ==
    IF i > Len(ord) THEN [vals |-> vs, err |-> "nil"]
    ELSE applyFlagsNext(flds, fs, infos, ord, i,
                        setEach(vs, flds, flds[ord[i]],
                                ChangedValues(fs, infos[ord[i]], 1), 1))

applyFlagsNext(flds, fs, infos, ord, i, r) ==
    IF r.err # "nil" THEN r
    ELSE applyFlags(flds, fs, infos, ord, i + 1, r.vals)

\* readPFlags after its second loop returned r
readPFlagsRanged(h, r) ==
    [vals |-> r.vals, heap |-> h, err |-> r.err, panic |-> FALSE, ranged |-> TRUE]

\* readPFlags after flagSet.Parse returned p
readPFlagsParsed(flds, infos, ord, vs, h, p) ==
    IF p.err # "nil"
    THEN [vals |-> vs, heap |-> h, err |-> p.err, panic |-> FALSE, ranged |-> FALSE]
    ELSE readPFlagsRanged(h, applyFlags(flds, p.fs, infos, ord, 1, vs))

\* readPFlags after the registration loop returned reg
readPFlagsRegistered(a, flds, ord, vs, reg) ==
    IF reg.panic
    THEN [vals |-> vs, heap |-> reg.heap, err |-> "pflag: flag redefined", panic |-> TRUE,
          ranged |-> FALSE]
    ELSE readPFlagsParsed(flds, reg.infos, ord, vs, reg.heap, Parse(reg.fs, a))

\* readPFlags: [vals, heap, err, panic, ranged], ranged telling whether the
\* second loop was reached.  Go leaves the iteration order of a map
\* unspecified: ord is the order this run ranged over fieldToFlagInfo.
readPFlags(flds, config, a, ord, vs, h) ==
    readPFlagsRegistered(a, flds, ord, vs,
                         registerFlags(flds, config, 1, <<>>, EmptyMap, <<>>, h))

-----
(* Collector.Get, stage by stage *)

\* all orders in which a map with n entries can be ranged over
Orders(n) == {o \in [1..n -> 1..n] : \A i, j \in 1..n : o[i] = o[j] => i = j}

Finish(e, p) ==
    /\ pc' = "done"
    /\ err' = e
    /\ panicked' = p

\* value.Kind() != reflect.Ptr, then getFieldsConfigsFromValue
GetCatalogBuilt(r) ==
    IF r.err # "nil"
    THEN Finish(r.err, r.panic) /\ UNCHANGED <<fields, heap>>
    ELSE /\ fields' = r.fields
         /\ heap' = r.heap
         /\ pc' = "files"
         /\ UNCHANGED <<err, panicked>>

GetCatalog ==
    /\ pc = "start"
    /\ IF ~typ.Ptr
       THEN Finish("ErrPointerExpected", FALSE) /\ UNCHANGED <<fields, heap>>
       ELSE GetCatalogBuilt(getFieldsConfigsFromValue(typ.Fields))
    /\ UNCHANGED <<typ, collector, environ, args, dirFiles, vals, before, order>>

\* Return with ErrNoFileFound returned like every other error
ReturnEveryError(r, next) ==
    /\ vals' = r.vals
    /\ heap' = r.heap
    /\ IF r.err = "nil"
       THEN IF next = "done" THEN Finish("nil", FALSE)
            ELSE pc' = next /\ UNCHANGED <<err, panicked>>
       ELSE Finish(r.err, r.panic)

\* the stage's reader returned r: Get returns its failure (the file stage
\* passes over ErrNoFileFound), else goes on to the stage `next`, or returns
\* nil when next is "done"
Return(r, next) ==
    /\ vals' = r.vals
    /\ heap' = r.heap
    /\ IF r.err = "nil" \/ (next = "env" /\ r.err = "ErrNoFileFound")
       THEN IF next = "done" THEN Finish("nil", FALSE)
            ELSE pc' = next /\ UNCHANGED <<err, panicked>>
       ELSE Finish(r.err, r.panic)

\* the file stage: readFiles unless disabled; ErrNoFileFound is passed over
GetFiles ==
    /\ pc = "files"
    /\ before' = vals
    /\ IF collector.Files.Disabled
       THEN pc' = "env" /\ UNCHANGED <<vals, heap, err, panicked>>
       ELSE Return(readFiles(fields, collector.Files, dirFiles, vals, heap), "env")
    /\ UNCHANGED <<typ, collector, environ, args, dirFiles, fields, order>>

\* readEnv run on the target as it was preset, not as the file stage left it
GetEnvReadOnPreset(e) ==
    IF e.panic
    THEN Finish("index out of range", TRUE) /\ UNCHANGED <<vals, heap>>
    ELSE Return(readEnv(fields, collector.Env, e.m, PresetVals(typ.Fields), heap), "flags")

\* readEnv over what getEnvAsMap returned
GetEnvRead(e) ==
    IF e.panic
    THEN Finish("index out of range", TRUE) /\ UNCHANGED <<vals, heap>>
    ELSE Return(readEnv(fields, collector.Env, e.m, vals, heap), "flags")

\* GetEnv reading the environment whether or not it is disabled
GetEnvAlways ==
    /\ pc = "env"
    /\ before' = vals
    /\ GetEnvRead(getEnvAsMap(environ))
    /\ UNCHANGED <<typ, collector, environ, args, dirFiles, fields, order>>

\* the environment stage: readEnv over getEnvAsMap() unless disabled
GetEnv ==
    /\ pc = "env"
    /\ before' = vals
    /\ IF collector.Env.Disabled
       THEN pc' = "flags" /\ UNCHANGED <<vals, heap, err, panicked>>
       ELSE GetEnvRead(getEnvAsMap(environ))
    /\ UNCHANGED <<typ, collector, environ, args, dirFiles, fields, order>>

\* readPFlags returned r, having ranged over its map in order ord
GetFlagsRead(ord, r) ==
    /\ order' = IF r.ranged THEN ord ELSE <<>>
    /\ Return(r, "done")

\* the flag stage: readPFlags unless disabled, then return
GetFlags ==
    /\ pc = "flags"
    /\ before' = vals
    /\ IF collector.Flags.Disabled
       THEN Finish("nil", FALSE) /\ UNCHANGED <<vals, heap, order>>
       ELSE \E ord \in Orders(Len(fields)) :
                GetFlagsRead(ord, readPFlags(fields, collector.Flags, args, ord, vals, heap))
    /\ UNCHANGED <<typ, collector, environ, args, dirFiles, fields>>

Next == GetCatalog \/ GetFiles \/ GetEnv \/ GetFlags

-----------------------------------------------------------------------------
(* The runs explored: settings types with their preset values, collectors, *)
(* environments, argument lists and directory contents.                    *)

\* bounds of the runs that read one source only
MaxEnv == 2
MaxArgs == 3
MaxDirs == 2
\* bounds of the runs that read all three sources
MaxMergeEnv == 2
MaxMergeArgs == 2
MaxMergeDirs == 1

SeqsUpTo(S, n) == UNION {[1..k -> S] : k \in 0..n}

\* struct { Port int `config:"env=PORT,flag=p port"` }, Port preset to 3000
PortType ==
    [Ptr |-> TRUE, Fields |-> <<
      [Name |-> <<"P","o","r","t">>,
       Tag |-> <<"e","n","v","=","P","O","R","T",",","f","l","a","g","=","p"," ","p","o","r","t">>,
       Kind |-> "int", Fields |-> <<>>, Preset |-> IntVal(3000)]>>]

\* struct { Host string `config:"env=H,file=h,flag=dflt"`
\*          Database struct { Port int8 `config:"env=PORT,file=p,flag=dflt"` } }
\* preset to Host "a", Database.Port 5
MainFields ==
    <<[Name |-> <<"H","o","s","t">>,
       Tag |-> <<"e","n","v","=","H",",","f","i","l","e","=","h",",","f","l","a","g","=","d","f","l","t">>,
       Kind |-> "string", Fields |-> <<>>, Preset |-> StrVal(<<"a">>)],
      [Name |-> <<"D","a","t","a","b","a","s","e">>,
       Tag |-> <<>>,
       Kind |-> "struct", Fields |-> <<
      [Name |-> <<"P","o","r","t">>,
       Tag |-> <<"e","n","v","=","P","O","R","T",",","f","i","l","e","=","p",",","f","l","a","g","=","d","f","l","t">>,
       Kind |-> "int8", Fields |-> <<>>, Preset |-> IntVal(5)]>>, Preset |-> StructVal]>>

MainType == [Ptr |-> TRUE, Fields |-> MainFields]

\* the same struct passed by value instead of by pointer
ByValueType == [Ptr |-> FALSE, Fields |-> MainFields]

\* struct { Debug string `config:"flag=verbose v"`; Trace string `config:"flag=verbose v"` }
VerboseType ==
    [Ptr |-> TRUE, Fields |-> <<
      [Name |-> <<"D","e","b","u","g">>,
       Tag |-> <<"f","l","a","g","=","v","e","r","b","o","s","e"," ","v">>,
       Kind |-> "string", Fields |-> <<>>, Preset |-> StrVal(<<"n">>)],
      [Name |-> <<"T","r","a","c","e">>,
       Tag |-> <<"f","l","a","g","=","v","e","r","b","o","s","e"," ","v">>,
       Kind |-> "string", Fields |-> <<>>, Preset |-> StrVal(<<"n">>)]>>]

\* struct { Debug string `config:"flag=verbose"`; Trace int `config:"flag=verbose t"` }
SharedType ==
    [Ptr |-> TRUE, Fields |-> <<
      [Name |-> <<"D","e","b","u","g">>,
       Tag |-> <<"f","l","a","g","=","v","e","r","b","o","s","e">>,
       Kind |-> "string", Fields |-> <<>>, Preset |-> StrVal(<<"n">>)],
      [Name |-> <<"T","r","a","c","e">>,
       Tag |-> <<"f","l","a","g","=","v","e","r","b","o","s","e"," ","t">>,
       Kind |-> "int", Fields |-> <<>>, Preset |-> IntVal(1)]>>]

\* struct { A int8; B int16; C int32; D int64 }, each preset to 1
IntsType ==
    [Ptr |-> TRUE, Fields |-> <<
      [Name |-> <<"A">>, Tag |-> <<>>, Kind |-> "int8", Fields |-> <<>>, Preset |-> IntVal(1)],
      [Name |-> <<"B">>, Tag |-> <<>>, Kind |-> "int16", Fields |-> <<>>, Preset |-> IntVal(1)],
      [Name |-> <<"C">>, Tag |-> <<>>, Kind |-> "int32", Fields |-> <<>>, Preset |-> IntVal(1)],
      [Name |-> <<"D">>, Tag |-> <<>>, Kind |-> "int64", Fields |-> <<>>, Preset |-> IntVal(1)]>>]

\* struct { Ecole string `config:"flag=e"` } with E acute (U+00C9) for the
\* E and e acute (U+00E9) for the e of the annotation, preset to "a"
AccentType ==
    [Ptr |-> TRUE, Fields |-> <<
      [Name |-> <<"U+00C9","c","o","l","e">>,
       Tag |-> <<"f","l","a","g","=","U+00E9">>,
       Kind |-> "string", Fields |-> <<>>, Preset |-> StrVal(<<"a">>)]>>]

\* struct { Labels map[string]string }, preset to {"k": "v"}
MapType ==
    [Ptr |-> TRUE, Fields |-> <<
      [Name |-> <<"L","a","b","e","l","s">>, Tag |-> <<>>, Kind |-> "map",
       Fields |-> <<>>, Preset |-> MapVal(MapPut(EmptyMap, <<"k">>, <<"v">>))]>>]

\* struct { A struct { B struct { C struct { D struct { X string }
\*                                           E struct { Y string } } } } }
\* with X and Y preset to "a"
DeepType ==
    [Ptr |-> TRUE, Fields |-> <<
      [Name |-> <<"A">>, Tag |-> <<>>, Kind |-> "struct", Fields |-> <<
      [Name |-> <<"B">>, Tag |-> <<>>, Kind |-> "struct", Fields |-> <<
        [Name |-> <<"C">>, Tag |-> <<>>, Kind |-> "struct", Fields |-> <<
          [Name |-> <<"D">>, Tag |-> <<>>, Kind |-> "struct", Fields |-> <<[Name |-> <<"X">>, Tag |-> <<>>, Kind |-> "string", Fields |-> <<>>, Preset |-> StrVal(<<"a">>)]>>, Preset |-> StructVal],
          [Name |-> <<"E">>, Tag |-> <<>>, Kind |-> "struct", Fields |-> <<[Name |-> <<"Y">>, Tag |-> <<>>, Kind |-> "string", Fields |-> <<>>, Preset |-> StrVal(<<"a">>)]>>, Preset |-> StructVal]>>, Preset |-> StructVal]>>, Preset |-> StructVal]>>, Preset |-> StructVal]>>]

\* struct { A struct { B struct { C struct { D struct { X string }
\*                                           E string } } } }
\* with X and E preset to "a"
DeepLeafType ==
    [Ptr |-> TRUE, Fields |-> <<
      [Name |-> <<"A">>, Tag |-> <<>>, Kind |-> "struct", Fields |-> <<
      [Name |-> <<"B">>, Tag |-> <<>>, Kind |-> "struct", Fields |-> <<
        [Name |-> <<"C">>, Tag |-> <<>>, Kind |-> "struct", Fields |-> <<
          [Name |-> <<"D">>, Tag |-> <<>>, Kind |-> "struct", Fields |-> <<[Name |-> <<"X">>, Tag |-> <<>>, Kind |-> "string", Fields |-> <<>>, Preset |-> StrVal(<<"a">>)]>>, Preset |-> StructVal],
          [Name |-> <<"E">>, Tag |-> <<>>, Kind |-> "string", Fields |-> <<>>, Preset |-> StrVal(<<"a">>)]>>, Preset |-> StructVal]>>, Preset |-> StructVal]>>, Preset |-> StructVal]>>]

\* struct { A struct { B struct { P string }; C struct { Q string } } }
\* with P and Q preset to "a"
SiblingsType ==
    [Ptr |-> TRUE, Fields |-> <<
      [Name |-> <<"A">>, Tag |-> <<>>, Kind |-> "struct", Fields |-> <<
      [Name |-> <<"B">>, Tag |-> <<>>, Kind |-> "struct", Fields |-> <<[Name |-> <<"P">>, Tag |-> <<>>, Kind |-> "string", Fields |-> <<>>, Preset |-> StrVal(<<"a">>)]>>, Preset |-> StructVal],
      [Name |-> <<"C">>, Tag |-> <<>>, Kind |-> "struct", Fields |-> <<[Name |-> <<"Q">>, Tag |-> <<>>, Kind |-> "string", Fields |-> <<>>, Preset |-> StrVal(<<"a">>)]>>, Preset |-> StructVal]>>, Preset |-> StructVal]>>]

\* MainType with Database.Port annotated by the flag spec given: `flag=<spec>`
MalformedType(flagTag) ==
    [Ptr |-> TRUE, Fields |-> <<
      [Name |-> <<"H","o","s","t">>,
       Tag |-> <<"e","n","v","=","H">>,
       Kind |-> "string", Fields |-> <<>>, Preset |-> StrVal(<<"a">>)],
      [Name |-> <<"D","a","t","a","b","a","s","e">>, Tag |-> <<>>, Kind |-> "struct", Preset |-> StructVal,
       Fields |-> <<[Name |-> <<"P","o","r","t">>, Tag |-> flagTag, Kind |-> "int8",
                     Fields |-> <<>>, Preset |-> IntVal(5)]>>]>>]

MalformedFlagTags ==
    { <<"f","l","a","g","=","a"," ","b"," ","c">>,
      <<"f","l","a","g","=","a"," ","b">>,
      <<"f","l","a","g","=","a","a"," ","b","b">>,
      <<"f","l","a","g","=","p"," "," ","p","o","r","t">>,
      <<"e","n","v","=","P","O","R","T",",","f","l","a","g","=","p"," ","p","o","r","t"," ","x">> }

\* annotations that break the key=value grammar: a pair without "=", an
\* empty key, an empty value, a key that is none of env, file and flag, and
\* an empty pair after a trailing comma
GrammarErrorTags ==
    { <<"e","n","v">>,
      <<"=","x">>,
      <<"e","n","v","=">>,
      <<"f","o","o","=","b","a","r">>,
      <<"e","n","v","=","P","O","R","T",",">>,
      <<"f","i","l","e","=","p",",","f","l","a","g">> }

WellFormedFlagTags ==
    { <<"f","l","a","g","=","p"," ","p","o","r","t">>,
      <<"f","l","a","g","=","p","o","r","t"," ","p">>,
      <<"f","l","a","g","=","p","o","r","t">>,
      <<"f","l","a","g","=","p">> }

\* DefaultCollector, with BaseName "config" and the separators ".", "_", "-"
DefaultCollector ==
    [Files |-> [BaseName |-> <<"c","o","n","f","i","g">>, Separator |-> <<".">>, Disabled |-> FALSE],
     Env   |-> [Prefix |-> <<>>, Separator |-> <<"_">>, Disabled |-> FALSE],
     Flags |-> [Separator |-> <<"-">>, Disabled |-> FALSE]]

\* a Collector with Env.Prefix "app"
PrefixCollector == [DefaultCollector EXCEPT !.Env.Prefix = <<"a","p","p">>]

\* c with the three sources disabled as given
WithDisabled(c, files, env, flags) ==
    [c EXCEPT !.Files.Disabled = files, !.Env.Disabled = env, !.Flags.Disabled = flags]

\* environment entries for MainType
MainEnvU ==
    { <<"H","=","b">>,
      <<"H","O","S","T","=","c">>,
      <<"H","O","S","T","=">>,
      <<"P","O","R","T","=","6">>,
      <<"P","O","R","T","=","x">>,
      <<"D","A","T","A","B","A","S","E","_","P","O","R","T","=","7">>,
      <<"d","a","t","a","b","a","s","e","_","p","o","r","t","=","8">>,
      <<"D","a","t","a","b","a","s","e","_","P","o","r","t","=","9">>,
      <<"D","A","T","A","B","A","S","E","=">>,
      <<"A","P","P","_","D","A","T","A","B","A","S","E","_","P","O","R","T","=","4">>,
      <<"A","P","P","_","P","O","R","T","=","3">> }

\* environment entries for IntsType: the least and the greatest number of a
\* width, and the numbers next to them
IntsEnvU ==
    { <<"A","=","1","2","7">>,
      <<"A","=","1","2","8">>,
      <<"A","=","-","1","2","8">>,
      <<"A","=","-","1","2","9">>,
      <<"B","=","3","2","7","6","7">>,
      <<"B","=","3","2","7","6","8">>,
      <<"C","=","7","0","0","0","0">>,
      <<"D","=","7","0","0","0","0">>,
      <<"D","=","9","2","2","3","3","7","2","0","3","6","8","5","4","7","7","5","8","0","8">> }

\* environment entries for MapType
MapEnvU ==
    { <<"L","A","B","E","L","S","=","a","=","b">>,
      <<"L","A","B","E","L","S","=","a","=","b",",","c">>,
      <<"L","A","B","E","L","S","="," ","a"," ","="," ","b"," ",",","c","=","d","=","e">>,
      <<"L","A","B","E","L","S","=","c">>,
      <<"L","A","B","E","L","S","=","a","=","b",",">>,
      <<"L","A","B","E","L","S","=","\f","a"," ","=","b","\f">> }

\* environment entries and arguments for AccentType
AccentEnvU ==
    { <<"U+00C9","C","O","L","E","=","x">>,
      <<"U+00C9","c","o","l","e","=","y">>,
      <<"U+00E9","C","O","L","E","=","z">> }

AccentArgU ==
    { <<"-","-","U+00E9","c","o","l","e","=","w">> }

\* arguments for MainType
MainArgU ==
    { <<"-","-","d","f","l","t","=","2">>,
      <<"-","-","d","f","l","t","=">>,
      <<"-","-","h","o","s","t","=","b">>,
      <<"-","-","d","a","t","a","b","a","s","e","-","p","o","r","t","=","7">>,
      <<"-","-","d","a","t","a","b","a","s","e","-","p","o","r","t","=","x">>,
      <<"-","-","d","a","t","a","b","a","s","e","-","p","o","r","t","=">>,
      <<"-","-","d","a","t","a","b","a","s","e","-","p","o","r","t">>,
      <<"-","-","d","a","t","a","b","a","s","e","=">>,
      <<"-","-","u","n","k","n","o","w","n">>,
      <<"-","z","=","1">> }

\* environment entries and arguments for PortType
PortEnvU ==
    { <<"P","O","R","T","=","8","0","8","0">> }

PortArgU ==
    { <<"-","-","p","o","r","t","=","9","0","9","0">>,
      <<"-","p","=","1","1","1","1">> }

\* arguments for VerboseType and SharedType
VerboseArgU ==
    { <<"-","-","v","e","r","b","o","s","e","=","y">>,
      <<"-","-","v","e","r","b","o","s","e","=","3">>,
      <<"-","-","t","r","a","c","e","=","4">>,
      <<"-","-","d","e","b","u","g","=","z">>,
      <<"-","v","=","w">>,
      <<"-","t","=","5">>,
      <<"-","z","t">>,
      <<"6">> }

\* decoded contents of configuration files for MainType
BothKeysMap ==      \* h: f, Host: g, p: 8, database: {port: 9}
    <<[key |-> <<"h">>, val |-> FStr(<<"f">>)],
          [key |-> <<"H","o","s","t">>, val |-> FStr(<<"g">>)],
          [key |-> <<"p">>, val |-> FInt(8)],
          [key |-> <<"d","a","t","a","b","a","s","e">>, val |-> FMap(<<[key |-> <<"p","o","r","t">>, val |-> FInt(9)]>>)]>>

DefaultKeysMap ==   \* h: f, p: "12"
    <<[key |-> <<"h">>, val |-> FStr(<<"f">>)],
          [key |-> <<"p">>, val |-> FStr(<<"1","2">>)]>>

PathKeysMap ==      \* HOST: g, Database: {Port: 300}
    <<[key |-> <<"H","O","S","T">>, val |-> FStr(<<"g">>)],
          [key |-> <<"D","a","t","a","b","a","s","e">>, val |-> FMap(<<[key |-> <<"P","o","r","t">>, val |-> FInt(300)]>>)]>>

BadTextMap ==       \* h: f, p: bad
    <<[key |-> <<"h">>, val |-> FStr(<<"f">>)],
          [key |-> <<"p">>, val |-> FStr(<<"b","a","d">>)]>>

BadNumberMap ==     \* database: {port: 9}, host: 3
    <<[key |-> <<"d","a","t","a","b","a","s","e">>, val |-> FMap(<<[key |-> <<"p","o","r","t">>, val |-> FInt(9)]>>)],
          [key |-> <<"h","o","s","t">>, val |-> FInt(3)]>>

ResetMap ==         \* database: ""
    <<[key |-> <<"d","a","t","a","b","a","s","e">>, val |-> FStr(<<>>)]>>

HostOnlyMap ==      \* host: z
    <<[key |-> <<"h","o","s","t">>, val |-> FStr(<<"z">>)]>>

FileMaps ==
    {BothKeysMap, DefaultKeysMap, PathKeysMap, BadTextMap, BadNumberMap, ResetMap,
     HostOnlyMap}

ConfigFile(name, m) == [name |-> name, readable |-> TRUE, decodable |-> TRUE, m |-> m]

configYaml == <<"c","o","n","f","i","g",".","y","a","m","l">>
configJson == <<"c","o","n","f","i","g",".","j","s","o","n">>
otherYaml == <<"o","t","h","e","r",".","y","a","m","l">>

\* directory listings: a directory that cannot be read, one without a
\* matching file, one file per decoded content, a file that is neither YAML
\* nor JSON, a file that cannot be read, and two matching files
DirU ==
    {[ok |-> FALSE, files |-> <<>>],
     [ok |-> TRUE, files |-> <<ConfigFile(otherYaml, BothKeysMap)>>],
     [ok |-> TRUE, files |-> <<[name |-> configYaml, readable |-> TRUE,
                                decodable |-> FALSE, m |-> <<>>]>>],
     [ok |-> TRUE, files |-> <<[name |-> configYaml, readable |-> FALSE,
                                decodable |-> FALSE, m |-> <<>>]>>],
     [ok |-> TRUE, files |-> <<ConfigFile(configJson, PathKeysMap),
                               ConfigFile(configYaml, DefaultKeysMap)>>]}
    \cup {[ok |-> TRUE, files |-> <<ConfigFile(configYaml, m)>>] : m \in FileMaps}

\* the entries, arguments and directories of the runs that use all three
\* sources together
MergeEnvU ==
    { <<"H","=","b">>,
      <<"P","O","R","T","=","6">>,
      <<"P","O","R","T","=","x">> }

MergeArgU ==
    { <<"-","-","d","a","t","a","b","a","s","e","-","p","o","r","t","=","7">>,
      <<"-","-","d","f","l","t","=","x">>,
      <<"-","-","d","f","l","t","=","2">>,
      <<"-","-","d","a","t","a","b","a","s","e","=">> }

MergeDirU ==
    {[ok |-> TRUE, files |-> <<ConfigFile(configYaml, m)>>] : m \in {BothKeysMap, BadTextMap}}

\* the entry, argument and directory of the runs on mis-annotated types
FewEnvU ==
    { <<"P","O","R","T","=","6">> }

FewArgU ==
    { <<"-","-","d","a","t","a","b","a","s","e","-","p","o","r","t","=","7">> }

FewDirU == {[ok |-> TRUE, files |-> <<ConfigFile(configYaml, BothKeysMap)>>]}

\* the entries, arguments and directories for DeepType and SiblingsType
DeepEnvU ==
    { <<"A","_","B","_","C","_","D","_","X","=","v">>,
      <<"A","_","B","_","C","_","E","_","X","=","u">> }

DeepArgU ==
    { <<"-","-","a","-","b","-","c","-","d","-","x","=","w">> }

DeepMap ==          \* a: {b: {c: {d: {x: f}, e: {y: g}}}}
    <<[key |-> <<"a">>, val |-> FMap(<<[key |-> <<"b">>, val |-> FMap(<<
         [key |-> <<"c">>, val |-> FMap(<<
            [key |-> <<"d">>, val |-> FMap(<<[key |-> <<"x">>, val |-> FStr(<<"f">>)]>>)],
            [key |-> <<"e">>, val |-> FMap(<<[key |-> <<"y">>, val |-> FStr(<<"g">>)]>>)]>>)]>>)]>>)]>>

DeepDirU == {[ok |-> TRUE, files |-> <<ConfigFile(configYaml, DeepMap)>>]}

DeepLeafMap ==      \* a: {b: {c: {d: {x: f}, e: g}}}
    <<[key |-> <<"a">>, val |-> FMap(<<[key |-> <<"b">>, val |-> FMap(<<
         [key |-> <<"c">>, val |-> FMap(<<
            [key |-> <<"d">>, val |-> FMap(<<[key |-> <<"x">>, val |-> FStr(<<"f">>)]>>)],
            [key |-> <<"e">>, val |-> FStr(<<"g">>)]>>)]>>)]>>)]>>

DeepLeafDirU == {[ok |-> TRUE, files |-> <<ConfigFile(configYaml, DeepLeafMap)>>]}

SiblingsEnvU ==
    { <<"A","_","B","_","P","=","v">>,
      <<"A","_","C","_","Q","=","u">> }

SiblingsArgU ==
    { <<"-","-","a","-","b","-","p","=","w">>,
      <<"-","-","a","-","c","-","q","=">> }

SiblingsMap ==      \* a: {b: {p: f}, c: {q: g}}
    <<[key |-> <<"a">>, val |-> FMap(<<
         [key |-> <<"b">>, val |-> FMap(<<[key |-> <<"p">>, val |-> FStr(<<"f">>)]>>)],
         [key |-> <<"c">>, val |-> FMap(<<[key |-> <<"q">>, val |-> FStr(<<"g">>)]>>)]>>)]>>

SiblingsDirU == {[ok |-> TRUE, files |-> <<ConfigFile(configYaml, SiblingsMap)>>]}

AllSources == {DefaultCollector, PrefixCollector}

EnvOnly == {WithDisabled(c, TRUE, FALSE, TRUE) : c \in AllSources}
FlagsOnly == {WithDisabled(DefaultCollector, TRUE, TRUE, FALSE)}
FilesOnly == {WithDisabled(DefaultCollector, FALSE, TRUE, TRUE)}
AnyDisabled ==
    {WithDisabled(DefaultCollector, a, b, c) : a \in BOOLEAN, b \in BOOLEAN, c \in BOOLEAN}

Scenario(t, cs, envU, maxEnv, argU, maxArgs, dirU, maxDirs) ==
    [typ |-> t, collectors |-> cs, envU |-> envU, maxEnv |-> maxEnv,
     argU |-> argU, maxArgs |-> maxArgs, dirU |-> dirU, maxDirs |-> maxDirs]

MergeScenario(t, cs, envU, argU, dirU) ==
    Scenario(t, cs, envU, MaxMergeEnv, argU, MaxMergeArgs, dirU, MaxMergeDirs)

\* runs of the whole merge
Scenarios ==
    {MergeScenario(MainType, AllSources, MergeEnvU, MergeArgU, MergeDirU),
     MergeScenario(PortType, AnyDisabled, PortEnvU, PortArgU, {}),
     MergeScenario(ByValueType, {DefaultCollector}, FewEnvU, FewArgU, FewDirU)}
    \cup {MergeScenario(MalformedType(tag), AnyDisabled, FewEnvU, FewArgU, FewDirU) :
            tag \in MalformedFlagTags \cup WellFormedFlagTags}

\* runs that read the environment only
EnvScenarios ==
    {Scenario(MainType, EnvOnly, MainEnvU, MaxEnv, {}, 0, {}, 0),
     Scenario(IntsType, {WithDisabled(DefaultCollector, TRUE, FALSE, TRUE)},
              IntsEnvU, MaxEnv, {}, 0, {}, 0),
     Scenario(MapType, {WithDisabled(DefaultCollector, TRUE, FALSE, TRUE)},
              MapEnvU, MaxEnv, {}, 0, {}, 0),
     Scenario(AccentType, EnvOnly, AccentEnvU, MaxEnv, {}, 0, {}, 0)}

\* runs that read the flags only
FlagScenarios ==
    {Scenario(MainType, FlagsOnly, {}, 0, MainArgU, MaxArgs, {}, 0),
     Scenario(VerboseType, FlagsOnly, {}, 0, VerboseArgU, MaxArgs, {}, 0),
     Scenario(SharedType, FlagsOnly, {}, 0, VerboseArgU, MaxArgs, {}, 0),
     Scenario(PortType, FlagsOnly, {}, 0, PortArgU, MaxArgs, {}, 0),
     Scenario(AccentType, FlagsOnly, {}, 0, AccentArgU, MaxArgs, {}, 0)}

\* runs that read the files only, and runs that go on from the files to one
\* environment entry and one argument
FileScenarios ==
    {Scenario(MainType, FilesOnly, {}, 0, {}, 0, DirU, MaxDirs),
     Scenario(MainType, {DefaultCollector}, FewEnvU, 1, FewArgU, 1, DirU, MaxDirs)}

\* runs on types with nested structs side by side
CatalogScenarios ==
    {Scenario(DeepType, {DefaultCollector}, DeepEnvU, 1, DeepArgU, 1, DeepDirU, 1),
     Scenario(DeepLeafType, {DefaultCollector}, DeepEnvU, 1, DeepArgU, 1, DeepLeafDirU, 1),
     Scenario(SiblingsType, AnyDisabled, SiblingsEnvU, 1, SiblingsArgU, 1, SiblingsDirU, 1),
     Scenario(MainType, {DefaultCollector}, FewEnvU, 1, FewArgU, 1, FewDirU, 1)}
    \cup {Scenario(MalformedType(tag), {DefaultCollector}, FewEnvU, 1, FewArgU, 1, FewDirU, 1) :
            tag \in GrammarErrorTags}

InitOf(S) ==
    \E sc \in S :
        /\ typ = sc.typ
        /\ collector \in sc.collectors
        /\ environ \in SeqsUpTo(sc.envU, sc.maxEnv)
        /\ args \in SeqsUpTo(sc.argU, sc.maxArgs)
        /\ dirFiles \in SeqsUpTo(sc.dirU, sc.maxDirs)
        /\ pc = "start"
        /\ fields = <<>>
        /\ heap = <<>>
        /\ vals = PresetVals(sc.typ.Fields)
        /\ before = PresetVals(sc.typ.Fields)
        /\ err = "nil"
        /\ panicked = FALSE
        /\ order = <<>>

Init == InitOf(Scenarios)
InitEnv == InitOf(EnvScenarios)
InitFlags == InitOf(FlagScenarios)
InitFiles == InitOf(FileScenarios)
InitCatalog == InitOf(CatalogScenarios)

Spec == Init /\ [][Next]_vars
SpecEnv == InitEnv /\ [][Next]_vars
SpecFlags == InitFlags /\ [][Next]_vars
SpecFiles == InitFiles /\ [][Next]_vars
SpecCatalog == InitCatalog /\ [][Next]_vars

-----------------------------------------------------------------------------
(* What the properties are stated with: the fields as the type declares    *)
(* them, and what the environment, the arguments and the files hold.       *)

\* F of the value of x, the value computed once however often F uses it
With(x, F(_)) == CHOOSE r \in {F(y) : y \in {x}} : TRUE

\* the elements of a sequence
Members(s) == {s[k] : k \in DOMAIN s}

\* the declarations of a struct type in depth-first order, each with its path
RECURSIVE FlatDecls(_, _)
FlatDecls(decls, prefix) ==
    IF Len(decls) = 0 THEN <<>>
    ELSE <<[Path |-> Append(prefix, decls[1].Name), Tag |-> decls[1].Tag,
            Kind |-> decls[1].Kind, Preset |-> decls[1].Preset]>>
         \o FlatDecls(decls[1].Fields, Append(prefix, decls[1].Name))
         \o FlatDecls(Tail(decls), prefix)

Decls == FlatDecls(typ.Fields, <<>>)
Slots == 1..Len(Decls)

IsProperPrefix(p, q) == Len(p) < Len(q) /\ SubSeq(q, 1, Len(p)) = p

\* the struct fields that enclose field i
Enclosing(i) == {j \in Slots : IsProperPrefix(Decls[j].Path, Decls[i].Path)}

Preset == PresetVals(typ.Fields)

\* the values an annotation gives under a key: those of its key=value pairs
TagValues(tag, key) ==
    {SubSeq(pair, Len(key) + 2, Len(pair)) :
        pair \in {p \in Members(Split(tag, <<",">>)) : HasPrefixAt(p, 1, key \o <<"=">>)}}

\* the one value of a well-formed annotation under a key, "" when it has none
TagValue(tag, key) ==
    With(TagValues(tag, key), LAMBDA vs : IF vs = {} THEN <<>> ELSE CHOOSE v \in vs : TRUE)

\* what setFromString makes of a text for field i
Coerced(i, text) == setFromString(Decls[i].Kind, TRUE, text).val

\* all three sources are given something to read
AllGiven == environ # <<>> /\ args # <<>> /\ dirFiles # <<>>

AllEnabled ==
    ~collector.Files.Disabled /\ ~collector.Env.Disabled /\ ~collector.Flags.Disabled

-----------------------------------------------------------------------------
(* Malformed flag specs *)

\* more than two tokens, two one-character tokens, or two longer tokens
MalformedFlagSpec(flagStr) ==
    LET tokens == Split(flagStr, <<" ">>) IN
    \/ Len(tokens) > 2
    \/ Len(tokens) = 2 /\ Len(tokens[1]) = 1 /\ Len(tokens[2]) = 1
    \/ Len(tokens) = 2 /\ Len(tokens[1]) > 1 /\ Len(tokens[2]) > 1

\* the flag specs an annotation gives: the values of its flag= pairs
FlagSpecs(tag) == TagValues(tag, flagKey)

HasMalformedFlagSpec ==
    \E i \in Slots : \E fs \in FlagSpecs(Decls[i].Tag) : MalformedFlagSpec(fs)

\* C6: when a field of the target, at any depth, has a malformed flag spec,
\* Get (called with a pointer) never reaches the file, env or flag reader, and
\* returns ErrMalformedFlagConfig with every field as the caller preset it.
C6_MalformedFlagSpecRejected ==
    (typ.Ptr /\ HasMalformedFlagSpec) =>
        /\ pc \in {"start", "done"}
        /\ pc = "done" => err = "ErrMalformedFlagConfig" /\ ~panicked /\ vals = Preset

\* Get returned on a malformed flag spec of a nested field with all three
\* sources enabled and given input
C6_Witness ==
    /\ pc = "done"
    /\ HasMalformedFlagSpec
    /\ err = "ErrMalformedFlagConfig"
    /\ AllEnabled /\ AllGiven

-----------------------------------------------------------------------------
(* The Port example *)

PORT8080 == <<"P","O","R","T","=","8","0","8","0">>
port9090 == <<"-","-","p","o","r","t","=","9","0","9","0">>

\* C2 (as stated): with Port annotated `env=PORT,flag=p port` and preset to
\* 3000, no config file, env and flags enabled, Get returns no error and Port
\* is 3000 with no input, 8080 with PORT=8080 only, 9090 with PORT=8080 and
\* --port=9090.
C2_PortExample ==
    (/\ typ = PortType /\ pc = "done" /\ dirFiles = <<>>
     /\ ~collector.Env.Disabled /\ ~collector.Flags.Disabled) =>
        /\ (environ = <<>> /\ args = <<>>) =>
               err = "nil" /\ ~panicked /\ vals[1] = IntVal(3000)
        /\ (environ = <<PORT8080>> /\ args = <<>>) =>
               err = "nil" /\ ~panicked /\ vals[1] = IntVal(8080)
        /\ (environ = <<PORT8080>> /\ args = <<port9090>>) =>
               err = "nil" /\ ~panicked /\ vals[1] = IntVal(9090)

-----------------------------------------------------------------------------
(* Two fields sharing `flag=verbose v` *)

verboseY == <<"-","-","v","e","r","b","o","s","e","=","y">>

\* C3 (as stated): with two fields both annotated `flag=verbose v` the flag
\* pass completes without failure, and --verbose=y supplied once sets both
\* fields to y.
C3_SharedDefaultFlag ==
    (typ = VerboseType /\ pc = "done" /\ ~collector.Flags.Disabled) =>
        /\ ~panicked
        /\ args = <<verboseY>> =>
               err = "nil" /\ vals[1] = StrVal(<<"y">>) /\ vals[2] = StrVal(<<"y">>)

-----------------------------------------------------------------------------
(* The environment pass *)

EnvKeyOf(entry) == SplitN2(entry, <<"=">>)[1]
EnvValOf(entry) == SplitN2(entry, <<"=">>)[2]

\* the environment has an entry spelled exactly key
EnvPresent(key) == \E k \in 1..Len(environ) : EnvKeyOf(environ[k]) = key

\* the value of the last entry spelled exactly key
EnvValue(key) ==
    EnvValOf(environ[CHOOSE k \in 1..Len(environ) :
                        /\ EnvKeyOf(environ[k]) = key
                        /\ \A k2 \in (k + 1)..Len(environ) : EnvKeyOf(environ[k2]) # key])

\* the name computed for field i: [PREFIX<sep>]path, upper-cased
ComputedEnvName(i) ==
    ToUpper(Join((IF collector.Env.Prefix # <<>> THEN <<collector.Env.Prefix>> ELSE <<>>)
                 \o Decls[i].Path, collector.Env.Separator))

\* the env= override of field i, "" when it has none
EnvOverride(i) == TagValue(Decls[i].Tag, envKey)

\* an entry is spelled as one of the upper-cased names of field i
EnvMatched(i) == EnvPresent(ComputedEnvName(i)) \/ EnvPresent(ToUpper(EnvOverride(i)))

\* an entry's key is the computed name of field i in another case
EnvCaseVariant(i) ==
    \E k \in 1..Len(environ) :
        /\ ToUpper(EnvKeyOf(environ[k])) = ComputedEnvName(i)
        /\ EnvKeyOf(environ[k]) # ComputedEnvName(i)

\* the env pass has just returned nil: vals is the target after it and
\* before the target when it started
EnvPassed == pc = "flags" /\ ~collector.Env.Disabled

\* C5 (as stated): an entry whose key is any case variant of a field's
\* computed name sets the field in the env pass.
C5_AnyCaseVariantMatches ==
    EnvPassed =>
        \A i \in Slots :
            (Len(environ) = 1 /\ ToUpper(EnvKeyOf(environ[1])) = ComputedEnvName(i)) =>
                vals[i] = Coerced(i, EnvValOf(environ[1]))

\* C5 (amended): only the looked-up name is upper-cased.  A field is set from
\* the entry spelled exactly as its computed name; an entry spelled as
\* another case variant of it does not match, and leaves the field as it was
\* when no entry is spelled as a name of the field or of an enclosing field.
C5_EnvKeyMatchedAsSpelled ==
    EnvPassed =>
        \A i \in Slots :
            /\ EnvPresent(ComputedEnvName(i)) =>
                   vals[i] = Coerced(i, EnvValue(ComputedEnvName(i)))
            /\ (/\ EnvCaseVariant(i)
                /\ ~EnvMatched(i)
                /\ \A j \in Enclosing(i) : ~EnvMatched(j)) =>
                   vals[i] = before[i]

\* the env pass ran over entries spelled DATABASE_PORT and in another case,
\* and set the field from the former
C5_Witness ==
    /\ EnvPassed
    /\ \E i \in Slots :
           /\ EnvCaseVariant(i)
           /\ EnvPresent(ComputedEnvName(i))
           /\ vals[i] # before[i]
           /\ \E k \in 1..Len(environ) :
                  /\ EnvKeyOf(environ[k]) # ComputedEnvName(i)
                  /\ ToUpper(EnvKeyOf(environ[k])) = ComputedEnvName(i)
                  /\ Coerced(i, EnvValOf(environ[k])) # vals[i]

\* C8 (as stated): for a field annotated env=NAME, when the environment has
\* entries for NAME and for the computed name with different values, the
\* field holds NAME's value after the env pass.
C8_OverrideReplacesComputedName ==
    EnvPassed =>
        \A i \in Slots :
            (/\ EnvOverride(i) # <<>>
             /\ EnvPresent(ToUpper(EnvOverride(i)))
             /\ EnvPresent(ComputedEnvName(i))
             /\ EnvValue(ToUpper(EnvOverride(i))) # EnvValue(ComputedEnvName(i))) =>
                vals[i] = Coerced(i, EnvValue(ToUpper(EnvOverride(i))))

\* C8 (amended): for a field annotated env=NAME, NAME is looked up first and
\* the computed name after it, both being applied: with an entry for the
\* computed name the field holds that entry's value, with an entry for NAME
\* only it holds NAME's value, and with neither (and no entry for an
\* enclosing field) it is unchanged, also when there is an entry for
\* PREFIX<sep>NAME: the prefix is never prepended to NAME.
C8_OverrideTriedBeforeComputedName ==
    EnvPassed =>
        \A i \in Slots :
            EnvOverride(i) # <<>> =>
                IF EnvPresent(ComputedEnvName(i))
                THEN vals[i] = Coerced(i, EnvValue(ComputedEnvName(i)))
                ELSE IF EnvPresent(ToUpper(EnvOverride(i)))
                THEN vals[i] = Coerced(i, EnvValue(ToUpper(EnvOverride(i))))
                ELSE (\A j \in Enclosing(i) : ~EnvMatched(j)) => vals[i] = before[i]

\* the env pass ran with entries for NAME and for the computed name of a
\* field, of different values, and the field holds the latter
C8_Witness ==
    /\ EnvPassed
    /\ \E i \in Slots :
           /\ EnvOverride(i) # <<>>
           /\ EnvPresent(ToUpper(EnvOverride(i)))
           /\ EnvPresent(ComputedEnvName(i))
           /\ Coerced(i, EnvValue(ToUpper(EnvOverride(i)))) # vals[i]
           /\ vals[i] # before[i]

-----------------------------------------------------------------------------
(* The file pass *)

\* the sequences seqs[k], seqs[k+1], ... one after the other
RECURSIVE ConcatFrom(_, _)
ConcatFrom(seqs, k) ==
    IF k > Len(seqs) THEN <<>> ELSE seqs[k] \o ConcatFrom(seqs, k + 1)
Concat(seqs) == ConcatFrom(seqs, 1)

\* the files of a directory listing that are named BaseName.<ext>
FilesOfDir(dir) ==
    IF dir.ok
    THEN SelectSeq(dir.files, LAMBDA f : TrimExt(f.name) = collector.Files.BaseName)
    ELSE <<>>

\* the files the pass reads, in the order it reads them
MatchingFiles == Concat([d \in 1..Len(dirFiles) |-> FilesOfDir(dirFiles[d])])

\* the file= override of field i, "" when it has none, and its full dotted path
FileOverride(i) == TagValue(Decls[i].Tag, fileKey)
FilePath(i) == Join(Decls[i].Path, collector.Files.Separator)

\* what file k holds under a key
FileGet(k, key) == CiMapGet(MatchingFiles[k].m, collector.Files.Separator, key)

\* the files that hold a value for field i under one of its two keys
HitFiles(i) ==
    {k \in 1..Len(MatchingFiles) : FileGet(k, FileOverride(i)).ok \/ FileGet(k, FilePath(i)).ok}

LastHitFile(i) == CHOOSE k \in HitFiles(i) : \A k2 \in HitFiles(i) : k2 <= k

\* the files that hold a text for a struct field enclosing field i, and the
\* last of them, 0 when there is none: the empty text resets the struct
ResetFiles(i) ==
    {k \in 1..Len(MatchingFiles) :
        \E j \in Enclosing(i) : \E key \in {FileOverride(j), FilePath(j)} :
            FileGet(k, key).ok /\ FileGet(k, key).val.t = "str"}
LastResetFile(i) ==
    IF ResetFiles(i) = {} THEN 0
    ELSE CHOOSE k \in ResetFiles(i) : \A k2 \in ResetFiles(i) : k2 <= k

\* what a decoded file value becomes in field i: decoded as it is, or, a
\* text that does not decode, coerced from the text
FileCoerced(i, v) ==
    IF Decode(Decls[i].Kind, v).err = "nil" THEN Decode(Decls[i].Kind, v).val
    ELSE Coerced(i, v.s)

\* the file pass has just ended without a failure
FilesPassed == pc = "env" /\ ~collector.Files.Disabled

\* C9 (as stated): only the first key found is applied: a field for which a
\* file holds values under both keys ends with the one under DefaultFileField.
C9_FirstKeyFoundOnly ==
    FilesPassed =>
        \A i \in Slots :
            (/\ Decls[i].Kind # "struct"
             /\ HitFiles(i) # {}
             /\ FileGet(LastHitFile(i), FileOverride(i)).ok
             /\ FileGet(LastHitFile(i), FilePath(i)).ok) =>
                vals[i] = FileCoerced(i, FileGet(LastHitFile(i), FileOverride(i)).val)

\* C9 (amended): the two keys are tried in the order DefaultFileField, full
\* dotted path, and each one found is applied: a field for which a file holds
\* a value under the full path ends with that value, whether or not the file
\* holds one under DefaultFileField; it ends with the value under
\* DefaultFileField when the file holds none under the full path (the file
\* being the last that holds a value for the field, and no later file
\* resetting a struct field that encloses it).
C9_BothKeysAppliedInOrder ==
    FilesPassed =>
        \A i \in Slots :
            (/\ Decls[i].Kind # "struct" /\ HitFiles(i) # {}
             /\ LastResetFile(i) <= LastHitFile(i)) =>
                IF FileGet(LastHitFile(i), FilePath(i)).ok
                THEN vals[i] = FileCoerced(i, FileGet(LastHitFile(i), FilePath(i)).val)
                ELSE vals[i] = FileCoerced(i, FileGet(LastHitFile(i), FileOverride(i)).val)

\* the file pass read a file holding different values under both keys of a
\* field, which holds the one under the full path
C9_Witness ==
    /\ FilesPassed
    /\ \E i \in Slots :
           /\ Decls[i].Kind # "struct"
           /\ HitFiles(i) # {}
           /\ FileGet(LastHitFile(i), FileOverride(i)).ok
           /\ FileGet(LastHitFile(i), FilePath(i)).ok
           /\ FileCoerced(i, FileGet(LastHitFile(i), FileOverride(i)).val) # vals[i]
           /\ vals[i] # before[i]

-----------------------------------------------------------------------------
(* The flag pass *)

\* the tokens of the flag spec of field i
FlagTokens(i) ==
    With(TagValues(Decls[i].Tag, flagKey),
         LAMBDA vs : IF vs = {} THEN <<>> ELSE Split(CHOOSE v \in vs : TRUE, <<" ">>))

\* the shared default identity of field i: the longer token of its flag spec,
\* "" when it has none; and its own identity: the lower-cased path
FlagDefaultName(i) ==
    With(SelectSeq(FlagTokens(i), LAMBDA tk : Len(tk) # 1),
         LAMBDA long : IF long = <<>> THEN <<>> ELSE long[1])
FlagSpecificName(i) == ToLower(Join(Decls[i].Path, collector.Flags.Separator))

\* the flag set as the arguments leave it
RegisteredFlags == registerFlags(fields, collector.Flags, 1, <<>>, EmptyMap, <<>>, heap)
ParsedFlags == Parse(RegisteredFlags.fs, args)

\* in the parsed flag set fs, the flag of that name was explicitly supplied;
\* the value it was given
FlagSupplied(fs, name) == LookupLong(fs, name) # 0 /\ fs[LookupLong(fs, name)].changed
FlagValue(fs, name) == fs[LookupLong(fs, name)].value

AnySupplied(fs, i) ==
    FlagSupplied(fs, FlagDefaultName(i)) \/ FlagSupplied(fs, FlagSpecificName(i))

\* the value of the identity of field i that is checked last among those
\* supplied: the specific one if supplied, else the default one
LastSuppliedValue(fs, i) ==
    IF FlagSupplied(fs, FlagSpecificName(i)) THEN FlagValue(fs, FlagSpecificName(i))
    ELSE FlagValue(fs, FlagDefaultName(i))

\* a step of Get that is a run of the flag pass without a panic
FlagStep == pc = "flags" /\ ~collector.Flags.Disabled /\ ~panicked'

EmptyResetsAbsentKeeps(fs) ==
    \A i \in Slots :
        /\ (\/ FlagSupplied(fs, FlagDefaultName(i)) /\ FlagValue(fs, FlagDefaultName(i)) = <<>>
            \/ FlagSupplied(fs, FlagSpecificName(i)) /\ FlagValue(fs, FlagSpecificName(i)) = <<>>)
               => vals'[i] = Zero(Decls[i].Kind)
        /\ ~AnySupplied(fs, i) => vals'[i] = vals[i]

\* C4 (as stated): in the flag pass a field one of whose identities was
\* supplied with the empty string is reset to zero, and a field none of whose
\* identities was supplied is unchanged.
C4_EmptyResetsAbsentKeeps ==
    [][FlagStep => \A fs \in {ParsedFlags.fs} : EmptyResetsAbsentKeeps(fs)]_vars

EmptyResetsUnsuppliedKeeps(fs) ==
    \A i \in Slots :
        /\ (err' = "nil" /\ AnySupplied(fs, i) /\ LastSuppliedValue(fs, i) = <<>>) =>
               /\ vals'[i] = Zero(Decls[i].Kind)
               /\ \A d \in Slots :
                      (i \in Enclosing(d) /\ ~AnySupplied(fs, d)) =>
                          vals'[d] = Zero(Decls[d].Kind)
        /\ (~AnySupplied(fs, i) /\ \A j \in Enclosing(i) : ~AnySupplied(fs, j)) =>
               vals'[i] = vals[i]

\* C4 (amended): in a flag pass that returns no error, a field whose identity
\* checked last among those supplied was given the empty string is zero
\* afterwards, and so is every field nested in it that had no identity of its
\* own supplied; in every flag pass, a field is unchanged when no identity of
\* it and none of an enclosing struct field was supplied.
C4_EmptyResetsUnsuppliedKeeps ==
    [][FlagStep => \A fs \in {ParsedFlags.fs} : EmptyResetsUnsuppliedKeeps(fs)]_vars

\* the flag pass ran alone and returned nil
FlagsAlonePassed ==
    /\ pc = "done" /\ err = "nil" /\ ~panicked /\ fields # <<>>
    /\ collector.Files.Disabled /\ collector.Env.Disabled /\ ~collector.Flags.Disabled

ResetAndKept(fs) ==
    /\ \E i \in Slots :
           /\ AnySupplied(fs, i) /\ LastSuppliedValue(fs, i) = <<>>
           /\ vals[i] = Zero(Decls[i].Kind) /\ Preset[i] # vals[i]
    /\ \E i \in Slots :
           /\ ~AnySupplied(fs, i) /\ \A j \in Enclosing(i) : ~AnySupplied(fs, j)
           /\ vals[i] = Preset[i] /\ vals[i] # Zero(Decls[i].Kind)

\* a flag pass with an unknown flag reset a field supplied with the empty
\* string and left an unsupplied field with its non-zero preset
C4_Witness ==
    /\ FlagsAlonePassed
    /\ \E k \in 1..Len(args) : args[k] = <<"-","-","u","n","k","n","o","w","n">>
    /\ \E fs \in {ParsedFlags.fs} : ResetAndKept(fs)

SpecificWins(fs) ==
    \A i \in Slots :
        (/\ FlagSupplied(fs, FlagDefaultName(i))
         /\ FlagSupplied(fs, FlagSpecificName(i))
         /\ FlagValue(fs, FlagDefaultName(i)) # FlagValue(fs, FlagSpecificName(i))) =>
            vals'[i] = Coerced(i, FlagValue(fs, FlagSpecificName(i)))

\* C7 (as stated): in a flag pass that returns no error, a field whose
\* default and specific identities were both supplied, with different values,
\* holds the value of the specific identity, whatever the order of the
\* arguments and the order in which the fields are processed.
C7_SpecificWinsInAnyOrder ==
    [][(FlagStep /\ err' = "nil") => \A fs \in {ParsedFlags.fs} : SpecificWins(fs)]_vars

-----------------------------------------------------------------------------
(* Precedence of the sources *)

\* the text the env pass leaves in field i: that of the computed name when
\* there is an entry for it, else that of the override
EnvFinalText(i) ==
    IF EnvPresent(ComputedEnvName(i)) THEN EnvValue(ComputedEnvName(i))
    ELSE EnvValue(ToUpper(EnvOverride(i)))

\* the value the file pass leaves in field i
FileFinal(i) ==
    IF FileGet(LastHitFile(i), FilePath(i)).ok
    THEN FileCoerced(i, FileGet(LastHitFile(i), FilePath(i)).val)
    ELSE FileCoerced(i, FileGet(LastHitFile(i), FileOverride(i)).val)

\* a file holds a text under a key of field i
FileTextHit(i) ==
    \E k \in HitFiles(i) : \E key \in {FileOverride(i), FilePath(i)} :
        FileGet(k, key).ok /\ FileGet(k, key).val.t = "str"

\* a source holds something for field i that a pass assigns from a text
Touched(fs, i) == AnySupplied(fs, i) \/ EnvMatched(i) \/ FileTextHit(i)

\* flag over environment over file over preset
Expected(fs, i) ==
    IF AnySupplied(fs, i) THEN Coerced(i, LastSuppliedValue(fs, i))
    ELSE IF EnvMatched(i) THEN Coerced(i, EnvFinalText(i))
    ELSE IF HitFiles(i) # {} THEN FileFinal(i)
    ELSE Preset[i]

\* Get returned nil with all three sources enabled
MergedDone == pc = "done" /\ err = "nil" /\ ~panicked /\ AllEnabled

Precedence(fs) ==
    \A i \in Slots : Decls[i].Kind # "struct" => vals[i] = Expected(fs, i)

\* C1 (as stated): after Get with all three sources enabled every field holds
\* the flag's value if a flag for it was supplied, else the environment's if
\* an entry matches, else the file's if an entry matches, else its preset.
C1_Precedence == MergedDone => \A fs \in {ParsedFlags.fs} : Precedence(fs)

PrecedenceOutsideResetStructs(fs) ==
    \A i \in Slots :
        (Decls[i].Kind # "struct" /\ \A j \in Enclosing(i) : ~Touched(fs, j)) =>
            vals[i] = Expected(fs, i)

\* C1 (amended): the same for every field no enclosing struct field of which
\* is itself supplied by a flag, matched by an environment entry or given a
\* text by a file.
C1_PrecedenceOutsideResetStructs ==
    MergedDone => \A fs \in {ParsedFlags.fs} : PrecedenceOutsideResetStructs(fs)

FlagOverAllAndFileOverPreset(fs) ==
    /\ \A i \in Slots : \A j \in Enclosing(i) : ~Touched(fs, j)
    /\ \E i \in Slots :
           /\ AnySupplied(fs, i) /\ EnvMatched(i) /\ HitFiles(i) # {}
           /\ vals[i] = Coerced(i, LastSuppliedValue(fs, i))
           /\ vals[i] # Coerced(i, EnvFinalText(i))
           /\ vals[i] # FileFinal(i)
           /\ vals[i] # Preset[i]
    /\ \E i \in Slots :
           /\ ~AnySupplied(fs, i) /\ ~EnvMatched(i) /\ HitFiles(i) # {}
           /\ vals[i] = FileFinal(i)
           /\ vals[i] # Preset[i]

\* Get returned nil having set a field from its flag although the
\* environment, the file and the preset hold other values for it, and a
\* field from the file that had neither a flag nor an environment entry
C1_Witness ==
    MergedDone /\ AllGiven /\ \E fs \in {ParsedFlags.fs} : FlagOverAllAndFileOverPreset(fs)

-----------------------------------------------------------------------------
(* Failed coercions.  A pass is a sequence of assignments, each of a field *)
(* and of what the coercion of the value found for it gives.               *)

TextAssign(i, text) == [f |-> i, r |-> setFromString(Decls[i].Kind, TRUE, text)]

\* what readFileMap makes of a value found for field i: the decoded value;
\* for a text that does not decode, its coercion; nothing for a struct field
FileAssign(i, v) ==
    [f |-> i,
     r |-> IF Decode(Decls[i].Kind, v).err = "nil"
           THEN [err |-> "nil", set |-> TRUE, val |-> Decode(Decls[i].Kind, v).val]
           ELSE IF v.t = "str" THEN setFromString(Decls[i].Kind, TRUE, v.s)
           ELSE IF Decls[i].Kind = "struct"
           THEN [err |-> "nil", set |-> FALSE, val |-> StructVal]
           ELSE [err |-> Decode(Decls[i].Kind, v).err, set |-> FALSE,
                 val |-> Zero(Decls[i].Kind)]]

\* the texts the environment holds for field i, override first
EnvTexts(i) ==
    (IF EnvPresent(ToUpper(EnvOverride(i))) THEN <<EnvValue(ToUpper(EnvOverride(i)))>>
     ELSE <<>>)
    \o (IF EnvPresent(ComputedEnvName(i)) THEN <<EnvValue(ComputedEnvName(i))>> ELSE <<>>)

\* the texts the arguments supply for field i, default identity first
FlagTexts(fs, i) ==
    With(<<FlagDefaultName(i), FlagSpecificName(i)>>,
         LAMBDA names :
             (IF FlagSupplied(fs, names[1]) THEN <<FlagValue(fs, names[1])>> ELSE <<>>)
             \o (IF FlagSupplied(fs, names[2]) THEN <<FlagValue(fs, names[2])>> ELSE <<>>))

\* the values file k holds for field i, override first
FileValues(k, i) ==
    (IF FileGet(k, FileOverride(i)).ok THEN <<FileGet(k, FileOverride(i)).val>> ELSE <<>>)
    \o (IF FileGet(k, FilePath(i)).ok THEN <<FileGet(k, FilePath(i)).val>> ELSE <<>>)

\* the assignments of these texts to field i
TextAssignments(i, texts) == [n \in 1..Len(texts) |-> TextAssign(i, texts[n])]

EnvAssignments ==
    Concat([i \in Slots |->
               With(EnvTexts(i), LAMBDA texts : TextAssignments(i, texts))])

\* ord is the order in which the fields are visited
FlagAssignments(fs, ord) ==
    Concat([k \in 1..Len(ord) |->
               With(FlagTexts(fs, ord[k]), LAMBDA texts : TextAssignments(ord[k], texts))])

\* the assignments of the first n files
FileAssignmentsUpTo(n) ==
    Concat([k \in 1..n |->
               Concat([i \in Slots |->
                          With(FileValues(k, i),
                               LAMBDA values :
                                   [x \in 1..Len(values) |-> FileAssign(i, values[x])])])])

FileAssignments == FileAssignmentsUpTo(Len(MatchingFiles))

\* the first assignment of A that fails, 0 when none does
FirstFailure(A) ==
    IF \E m \in 1..Len(A) : A[m].r.err # "nil"
    THEN CHOOSE m \in 1..Len(A) :
             A[m].r.err # "nil" /\ \A m2 \in 1..(m - 1) : A[m2].r.err = "nil"
    ELSE 0

\* v with field i assigned val; the zero struct clears what it encloses
Assigned(v, i, val) ==
    [j \in 1..Len(v) |->
        IF j = i THEN val
        ELSE IF Decls[i].Kind = "struct" /\ i \in Enclosing(j) THEN Zero(Decls[j].Kind)
        ELSE v[j]]

\* v after the first n assignments of A
RECURSIVE AppliedFirst(_, _, _)
AppliedFirst(v, A, n) ==
    IF n = 0 THEN v
    ELSE IF A[n].r.set
    THEN With(AppliedFirst(v, A, n - 1), LAMBDA w : Assigned(w, A[n].f, A[n].r.val))
    ELSE AppliedFirst(v, A, n - 1)

\* the step is the pass of a stage that gets as far as its assignments
FilesRead ==
    /\ pc = "files" /\ ~collector.Files.Disabled
    /\ \A k \in 1..Len(MatchingFiles) : MatchingFiles[k].readable /\ MatchingFiles[k].decodable
EnvRead == pc = "env" /\ ~collector.Env.Disabled
FlagsRead == pc = "flags" /\ ~collector.Flags.Disabled

\* Get returns the failure of assignment number n of A, the assignments
\* before it applied and nothing else
StoppedAt(A, n) ==
    /\ pc' = "done" /\ ~panicked'
    /\ err' = A[n].r.err
    /\ vals' = AppliedFirst(vals, A, n - 1)

\* when an assignment of the sequence fails, Get stops at the first that does
StopsAtFirstFailure(assignments) ==
    \A A \in {assignments} : \A n \in {FirstFailure(A)} : n # 0 => StoppedAt(A, n)

\* C10: the pass in which a value fails coercion ends Get with that error;
\* the target then holds what the earlier passes left plus the assignments of
\* this pass that precede the failing one, the failing field included; and
\* Get takes no step after a failure.
C10_FailedCoercionStopsWithoutRollback ==
    [][/\ err = "nil"
       /\ FilesRead => StopsAtFirstFailure(FileAssignments)
       /\ EnvRead => StopsAtFirstFailure(EnvAssignments)
       /\ FlagsRead =>
              \A reg \in {RegisteredFlags} : \A parsed \in {Parse(reg.fs, args)} :
                  (~reg.panic /\ parsed.err = "nil") =>
                      StopsAtFirstFailure(FlagAssignments(parsed.fs, order'))]_vars

\* Get returned a coercion error from a pass that had assigned a field before
\* the failure, after an earlier pass that had assigned one too
C10_Witness ==
    /\ pc = "done" /\ ~panicked
    /\ err = "strconv.ParseInt: invalid syntax"
    /\ \E i \in Slots : vals[i] # before[i]
    /\ \E i \in Slots : before[i] # Preset[i]

-----------------------------------------------------------------------------
(* Files that are missing, unreadable or in no known format *)

\* a matching file that cannot be read, or decodes neither as YAML nor as
\* JSON, and the error readFiles returns for it
FileBad(file) == ~file.readable \/ ~file.decodable
FileError(file) == IF ~file.readable THEN "read error" ELSE "ErrFileTypeNotSupported"

\* the step is the file stage with the file reader enabled
FileStage == pc = "files" /\ ~collector.Files.Disabled

\* Get ends at the k-th of the files, the first bad one, with its error, when
\* the assignments A of the files before it all succeed
StopsAtBadFile(files, k, A) ==
    (FileBad(files[k]) /\ FirstFailure(A) = 0 /\ \A j \in 1..(k - 1) : ~FileBad(files[j])) =>
        /\ pc' = "done" /\ ~panicked'
        /\ err' = FileError(files[k])
        /\ vals' = AppliedFirst(vals, A, Len(A))

\* C11: with files enabled, when no directory yields a matching file the file
\* stage leaves the target alone and Get goes on to the env stage without an
\* error, ErrNoFileFound never being what Get returns; when the reader comes
\* to a matching file that cannot be read or decoded, Get returns that error
\* from the file stage, so that neither the env nor the flag stage runs.
C11_NoFileToleratedBadFileFatal ==
    [][/\ err' # "ErrNoFileFound"
       /\ FileStage =>
              \A files \in {MatchingFiles} :
                  /\ files = <<>> =>
                         pc' = "env" /\ err' = "nil" /\ ~panicked' /\ vals' = vals
                  /\ \A k \in 1..Len(files) : \A A \in {FileAssignmentsUpTo(k - 1)} :
                         StopsAtBadFile(files, k, A)]_vars

\* Get returned nil with all three sources enabled and directories to search,
\* none of which held a matching file, the later stages having set a field
C11_Witness ==
    /\ pc = "done" /\ err = "nil" /\ ~panicked /\ AllEnabled
    /\ dirFiles # <<>> /\ MatchingFiles = <<>>
    /\ \E d \in 1..Len(dirFiles) : dirFiles[d].ok /\ dirFiles[d].files # <<>>
    /\ vals # Preset

-----------------------------------------------------------------------------
(* Disabled sources.  What the enabled stages alone produce is computed    *)
(* from the preset target by the readers of the enabled sources, one after *)
(* the other; a disabled source does not occur in it.                      *)

Outcome(r) == [vals |-> r.vals, heap |-> r.heap, err |-> r.err, panic |-> r.panic]

\* the file reader on the preset target, unless disabled
FilesAlone(catalog) ==
    IF collector.Files.Disabled
    THEN [vals |-> Preset, heap |-> catalog.heap, err |-> "nil", panic |-> FALSE]
    ELSE With(readFiles(catalog.fields, collector.Files, dirFiles, Preset, catalog.heap),
              LAMBDA r : IF r.err = "ErrNoFileFound" THEN [r EXCEPT !.err = "nil"] ELSE r)

\* then the env reader, unless disabled or an earlier stage failed
EnvAlone(catalog, prev) ==
    IF collector.Env.Disabled \/ prev.err # "nil" THEN prev
    ELSE With(getEnvAsMap(environ),
              LAMBDA e : IF e.panic
                         THEN [prev EXCEPT !.err = "index out of range", !.panic = TRUE]
                         ELSE readEnv(catalog.fields, collector.Env, e.m, prev.vals, prev.heap))

\* then the flag reader, ranging in the order this run ranged in
FlagsAlone(catalog, prev) ==
    IF collector.Flags.Disabled \/ prev.err # "nil" THEN prev
    ELSE Outcome(readPFlags(catalog.fields, collector.Flags, args,
                            IF order = <<>> THEN [k \in 1..Len(catalog.fields) |-> k]
                            ELSE order,
                            prev.vals, prev.heap))

\* Get returned, the catalog having been built
Returned == pc = "done" /\ typ.Ptr /\ fields # <<>>

NoneEnabled ==
    collector.Files.Disabled /\ collector.Env.Disabled /\ collector.Flags.Disabled

\* C12: when Get returns, the target and the error are what the readers of
\* the enabled sources alone produce from the preset target, whatever the
\* disabled sources contain; with all three disabled the target is as preset
\* and Get returns nil.
C12_DisabledSourcesNotRead ==
    Returned =>
        /\ \A catalog \in {getFieldsConfigsFromValue(typ.Fields)} :
           \A f \in {FilesAlone(catalog)} :
           \A e \in {EnvAlone(catalog, f)} :
           \A g \in {FlagsAlone(catalog, e)} :
               vals = g.vals /\ err = g.err /\ panicked = g.panic
        /\ NoneEnabled => vals = Preset /\ err = "nil" /\ ~panicked

\* Get returned nil with the files disabled: the first field is as preset
\* although a file holds another value for it, and the enabled stages have
\* set another field
C12_Witness ==
    /\ Returned /\ err = "nil" /\ ~panicked
    /\ collector.Files.Disabled /\ ~collector.Flags.Disabled
    /\ HitFiles(1) # {}
    /\ FileFinal(1) # Preset[1]
    /\ vals[1] = Preset[1]
    /\ vals # Preset

-----------------------------------------------------------------------------
(* Several matching files *)

\* C13 (as stated): after a file pass that succeeds, a field that files hold
\* values for has the value of the last of those files in the order of the
\* directories and of the files in them, be it the only one or not.
C13_LastFileWins ==
    FilesPassed =>
        \A i \in Slots :
            (Decls[i].Kind # "struct" /\ HitFiles(i) # {}) => vals[i] = FileFinal(i)

\* C13 (amended): after a file pass that succeeds, a field is zero when a
\* file that comes after the last file holding a value for it holds the
\* empty text for a struct field enclosing it; otherwise it has the value of
\* the last file that holds one for it; and it is as it was before the pass
\* when no file holds a value for it or resets a struct enclosing it.
C13_LastFileWinsUnlessReset ==
    FilesPassed =>
        \A i \in Slots :
            Decls[i].Kind # "struct" =>
                IF HitFiles(i) = {}
                THEN vals[i] = IF ResetFiles(i) = {} THEN before[i] ELSE Zero(Decls[i].Kind)
                ELSE IF LastResetFile(i) > LastHitFile(i)
                THEN vals[i] = Zero(Decls[i].Kind)
                ELSE vals[i] = FileFinal(i)

\* the file pass read two files: one field has the value of the second, which
\* differs from the first file's, and another field, which only the first
\* file holds a value for, has that value
C13_Witness ==
    /\ FilesPassed /\ Len(MatchingFiles) = 2
    /\ \A i \in Slots : ResetFiles(i) = {}
    /\ \E i \in Slots :
           /\ Decls[i].Kind # "struct" /\ HitFiles(i) = {1, 2}
           /\ vals[i] = FileFinal(i)
           /\ \A key \in {FileOverride(i), FilePath(i)} :
                  FileGet(1, key).ok => FileCoerced(i, FileGet(1, key).val) # vals[i]
    /\ \E i \in Slots :
           /\ Decls[i].Kind # "struct" /\ HitFiles(i) = {1}
           /\ vals[i] = FileFinal(i)
           /\ vals[i] # Preset[i]

-----------------------------------------------------------------------------
(* Integer targets *)

\* the width in bits of a signed integer kind
Width(kind) ==
    IF kind = "int8" THEN 8 ELSE IF kind = "int16" THEN 16
    ELSE IF kind = "int32" THEN 32 ELSE 64

\* a base-10 string: an optional sign and digits
IsDecimal(text) ==
    With(IF Len(text) > 0 /\ text[1] \in {"+", "-"} THEN Tail(text) ELSE text,
         LAMBDA ds : Len(ds) > 0 /\ DigitPrefix(ds) = ds)

\* the number a base-10 string denotes lies in the range of a signed integer
\* of w bits; the numbers of the runs within 64 bits are within 32 bits too
InRange(text, w) ==
    /\ ParseInt(text).err = "nil"
    /\ w < 32 => /\ ParseInt(text).n >= 0 - 2^(w - 1)
                 /\ ParseInt(text).n <= 2^(w - 1) - 1

\* the integer fields the environment holds one text for, a base-10 string
DecimalFields ==
    {i \in Slots : /\ IsIntKind(Decls[i].Kind)
                   /\ Len(EnvTexts(i)) = 1
                   /\ IsDecimal(EnvTexts(i)[1])}

\* C14 (as stated): an env pass that finds a base-10 string for one integer
\* field only sets the field to exactly the number when it lies in the range
\* of the field's width, and otherwise returns an error and leaves the field
\* as it was.
C14_IntegerSizedToWidth ==
    [][EnvRead =>
           \A i \in DecimalFields :
               (\A j \in Slots : EnvMatched(j) => j = i) =>
                   IF InRange(EnvTexts(i)[1], Width(Decls[i].Kind))
                   THEN err' = "nil" /\ vals'[i] = IntVal(ParseInt(EnvTexts(i)[1]).n)
                   ELSE err' # "nil" /\ vals'[i] = vals[i]]_vars

-----------------------------------------------------------------------------
(* String-to-string map targets *)

\* the elements of a text split on ","
MapElements(text) == Split(text, <<",">>)

\* the pairs of the elements that contain "=": what is before the first "="
\* and what is after it, both trimmed; of two elements with the same key the
\* later one counts
WellFormedPairs(text) ==
    With({n \in 1..Len(MapElements(text)) : Index(MapElements(text)[n], <<"=">>) # 0},
         LAMBDA good :
             [key \in {TrimSpace(SplitN2(MapElements(text)[n], <<"=">>)[1]) : n \in good} |->
                 TrimSpace(SplitN2(MapElements(text)[
                     CHOOSE n \in good :
                         /\ TrimSpace(SplitN2(MapElements(text)[n], <<"=">>)[1]) = key
                         /\ \A n2 \in good :
                                TrimSpace(SplitN2(MapElements(text)[n2], <<"=">>)[1]) = key
                                    => n2 <= n], <<"=">>)[2])])

\* the map fields the environment holds one non-empty text for
MapFields ==
    {i \in Slots : Decls[i].Kind = "map" /\ Len(EnvTexts(i)) = 1 /\ EnvTexts(i)[1] # <<>>}

\* C15 (as stated): an env pass that finds a text for a map field never fails
\* on it: the field becomes the map of the well-formed pairs of the text, the
\* elements without "=" being skipped.
C15_MalformedEntriesSkipped ==
    [][EnvRead =>
           \A i \in MapFields :
               (\A j \in Slots : EnvMatched(j) => j = i) =>
                   /\ err' = "nil"
                   /\ vals'[i] = MapVal(WellFormedPairs(EnvTexts(i)[1]))]_vars

-----------------------------------------------------------------------------
(* The path prefix of the catalog entries *)

\* the names of the struct fields that enclose field i, from the root down
EnclosingNames(i) == SubSeq(Decls[i].Path, 1, Len(Decls[i].Path) - 1)

CatalogBuilt == fields # <<>>

\* C16 (as stated): whenever the catalog is there, after it is built and
\* after every source pass that called FullName on its entries, the Base seen
\* through each entry is the names of the struct fields that enclose it.
C16_BaseIsEnclosingNames ==
    CatalogBuilt => \A i \in Slots : Elems(heap, fields[i].Base) = EnclosingNames(i)

-----------------------------------------------------------------------------
(* The names a source pass computes *)

\* FullName called on the entries i.. in catalog order, starting with the
\* backing arrays as h: the names computed and the arrays left behind
RECURSIVE PassFrom(_, _, _, _, _)
PassFrom(flds, separator, i, h, names) ==
    IF i > Len(flds) THEN [names |-> names, heap |-> h]
    ELSE With(FullName(h, flds[i], separator),
              LAMBDA fn : PassFrom(flds, separator, i + 1, fn.heap, Append(names, fn.name)))

\* a pass over the catalog computes for every field the names of its
\* enclosing struct fields and its own joined by the separator; a pass that
\* ran through leaves the backing arrays as the calls left them, and no pass
\* at all leaves them alone
PassNamesRight(separator) ==
    \A p \in {PassFrom(fields, separator, 1, heap, <<>>)} :
        /\ Len(p.names) = Len(Decls)
        /\ \A i \in Slots : p.names[i] = Join(Decls[i].Path, separator)
        /\ (err' = "nil" /\ ~panicked') => heap' \in {heap, p.heap}

\* C17: each source pass of a merge, the first and the ones after it, computes
\* for every catalog entry the full path the type declares, whatever backing
\* arrays the Base slices share.
C17_PassNamesAreFullPaths ==
    [][/\ FilesRead => PassNamesRight(collector.Files.Separator)
       /\ EnvRead => PassNamesRight(collector.Env.Separator)
       /\ FlagsRead => PassNamesRight(collector.Flags.Separator)]_vars

\* the file pass and the environment pass have assigned fields four structs
\* deep, one in each of two sibling structs, and the flag pass is next
C17_Witness ==
    /\ typ = DeepType
    /\ pc = "flags"
    /\ ~collector.Flags.Disabled
    /\ vals[5] = StrVal(<<"v">>)
    /\ vals[7] = StrVal(<<"g">>)

-----------------------------------------------------------------------------
(* Two runs on the same inputs *)

\* C18 (as stated): a run that reads the flags ends as every other run from
\* the same target, collector and arguments ends, whatever order each of them
\* ranges over the fields in: with the same value in every field and the
\* same error.
C18_GetIsDeterministic ==
    [][FlagsRead =>
           \A ord \in Orders(Len(fields)) :
               \A r \in {readPFlags(fields, collector.Flags, args, ord, vals, heap)} :
                   /\ r.vals = vals'
                   /\ r.err = err']_vars

-----------------------------------------------------------------------------
(* Annotations that break the key=value grammar *)

\* a pair of the annotation has no "=", an empty key, an empty value, or a
\* key other than env, file and flag
HasGrammarError(tag) ==
    /\ tag # <<>>
    /\ \E pair \in Members(Split(tag, <<",">>)) :
           \A at \in {Index(pair, <<"=">>)} :
               \/ at = 0
               \/ at = 1
               \/ at = Len(pair)
               \/ SubSeq(pair, 1, at - 1) \notin {envKey, fileKey, flagKey}

\* some field's annotation breaks the grammar, and no annotation has a
\* malformed flag spec
GrammarErrorOnly ==
    /\ \E i \in Slots : HasGrammarError(Decls[i].Tag)
    /\ \A i \in Slots : readParameterConfig(Decls[i].Tag).err # "ErrMalformedFlagConfig"

\* C19 (as stated): Get on a pointer to a struct with such an annotation goes
\* from the start straight to its return, with an error returned to the
\* caller, no source read and no field changed.
C19_GrammarErrorReturned ==
    [][(pc = "start" /\ typ.Ptr /\ GrammarErrorOnly) =>
           /\ pc' = "done"
           /\ err' # "nil"
           /\ ~panicked'
           /\ vals' = vals]_vars

====
